---- MODULE Spec2Model ----
(***************************************************************************)
(* FreshLogger (Logger.hpp): a Logger facade over spdlog.  The model       *)
(* follows Logger::setupLogger, the six log methods, setLogLevel,          *)
(* setConfig and flush, together with the parts of spdlog they drive: the  *)
(* logger-level and sink-level filters, the process-wide thread pool with  *)
(* its bounded FIFO queue and single worker, and the rotating file sink.   *)
(***************************************************************************)
EXTENDS Integers, Sequences, FiniteSets, TLC

(***************************************************************************)
(* Bounds of the model.                                                    *)
(***************************************************************************)
MaxMsgs == 2        \* log calls per thread
MaxSetups == 2      \* setupLogger runs per Logger (construction + setConfig)
FillMsgs == 50      \* log calls of the thread that fills a log file

Threads == {1, 2}    \* application threads calling into the Logger
Loggers == {"A", "B"}  \* Logger objects the process may construct

NULL == 0           \* the empty shared_ptr<spdlog::logger>

(***************************************************************************)
(* Logger::LogLevel (Logger.hpp:76-83) and spdlog::level::level_enum.      *)
(***************************************************************************)
TRACE == 0
DEBUG == 1
INFO == 2
WARNING == 3
ERROR == 4
FATAL == 5

spd_trace == 0
spd_debug == 1
spd_info == 2
spd_warn == 3
spd_err == 4
spd_critical == 5

\* Logger::convertLevel, Logger.hpp:331-341
convertLevel(level) ==
    CASE level = TRACE   -> spd_trace
      [] level = DEBUG   -> spd_debug
      [] level = INFO    -> spd_info
      [] level = WARNING -> spd_warn
      [] level = ERROR   -> spd_err
      [] level = FATAL   -> spd_critical
      [] OTHER           -> spd_info

\* The level each log method passes to spdlog (info -> info, warning -> warn,
\* error -> err, debug -> debug, trace -> trace, fatal -> critical).
MethodLevel(method) ==
    CASE method = "trace"   -> spd_trace
      [] method = "debug"   -> spd_debug
      [] method = "info"    -> spd_info
      [] method = "warning" -> spd_warn
      [] method = "error"   -> spd_err
      [] method = "fatal"   -> spd_critical

\* (a strict comparison)
should_logStrict(msgLevel, level) == msgLevel > level

\* spdlog::logger::should_log / sink::should_log: msg_level >= level
should_log(msgLevel, level) == msgLevel >= level

(***************************************************************************)
(* Records and queue messages.                                             *)
(***************************************************************************)
\* A log record: the calling thread, its per-thread submission number, the
\* Logger method that was called and the spdlog level that method logs at.
Rec(t, n, method) == [t |-> t, n |-> n, m |-> method, lvl |-> MethodLevel(method)]
NoRec(t) == [t |-> t, n |-> 0, m |-> "none", lvl |-> 0]

\* spdlog::details::async_msg: a log message or a flush request, bound to
\* the async_logger (pipeline) that posted it.
Msg(kind, pipe, rec) == [kind |-> kind, pipe |-> pipe, rec |-> rec]
NoMsg == Msg("none", NULL, NoRec(0))

\* formatted.size() of a record in the rotating file sink.  The model calls
\* each log method with one message of its own: the formatted record of
\* error has size 2, that of warning size 10, every other size 1.
RecordSize(rec) ==
    CASE rec.m = "error"   -> 2
      [] rec.m = "warning" -> 10
      [] OTHER             -> 1

(***************************************************************************)
(* Logger::setupLogger, Logger.hpp:204-329.                                *)
(***************************************************************************)
\* make_shared<stdout_color_sink_mt>() + set_level(convertLevel(minLevel))
ConsoleSink(cfg) == [kind |-> "console", level |-> convertLevel(cfg.minLevel)]

\* make_shared<rotating_file_sink_mt>(path, maxFileSize, maxFiles) + set_level
FileSink(cfg) == [kind |-> "file", level |-> convertLevel(cfg.minLevel)]

\* Logger.hpp:207-212
ConsoleSetup(cfg) == IF cfg.console THEN <<ConsoleSink(cfg)>> ELSE <<>>

\* std::cerr as the static initializer leaves it, Logger.hpp:59: failbit
\* set, writing to the process's stderr.
CerrStatic == [fail |-> TRUE, buf |-> "stderr"]

\* basic_ios::rdbuf(sb): installs the buffer and clears the error state.
rdbuf(cerr, sb) == [fail |-> FALSE, buf |-> sb]

\* StderrRedirectGuard, Logger.hpp:216-225: the constructor points std::cerr
\* at the local stringstream nb and keeps the buffer it replaces in old; the
\* destructor points std::cerr at old.
GuardOn(cerr, nb) == rdbuf(cerr, nb)

\* (a destructor that leaves std::cerr where it is)
GuardOffForgets(cerr, old) == cerr

GuardOff(cerr, old) == rdbuf(cerr, old)

\* std::cerr after the file-sink block of setupLogger run by one thread with
\* nothing in between, Logger.hpp:215-283.  Without a path the guard is not
\* built.  With one, the guard is a local of the try block: the return at
\* line 257, an exception on its way to the handler at line 273 and the end
\* of the block at line 271 all destroy it.
StderrAfter(cfg, cerr) ==
    IF cfg.path = "none" THEN cerr
    ELSE GuardOff(GuardOn(cerr, "buffer"), cerr.buf)

\* std::cerr << "Warning: ...": the number of lines that reach stderr
Warn(cerr) == IF ~cerr.fail /\ cerr.buf = "stderr" THEN 1 ELSE 0

\* The handler of the write-permission probe, Logger.hpp:248-258, inside the
\* guard's scope: write the warning, add a console sink when there is none,
\* then return from setupLogger.
InnerCatch(cfg, sinks) ==
    [sinks |-> IF sinks = <<>> THEN <<ConsoleSink(cfg)>> ELSE sinks,
     ret   |-> TRUE,
     diag  |-> Warn(GuardOn(CerrStatic, "buffer"))]

\* (the outer handler returning like the inner one)
OuterCatchReturns(cfg, sinks) ==
    [sinks |-> IF sinks = <<>> THEN <<ConsoleSink(cfg)>> ELSE sinks,
     ret   |-> TRUE,
     diag  |-> Warn(GuardOff(GuardOn(CerrStatic, "buffer"), CerrStatic.buf))]

\* The handler of the whole file-sink block, Logger.hpp:273-282, entered
\* after the guard is destroyed: write the warning, add a console sink when
\* there is none and go on to build the logger.
OuterCatch(cfg, sinks) ==
    [sinks |-> IF sinks = <<>> THEN <<ConsoleSink(cfg)>> ELSE sinks,
     ret   |-> FALSE,
     diag  |-> Warn(GuardOff(GuardOn(CerrStatic, "buffer"), CerrStatic.buf))]

\* The file system around the log file: whether the parent directory, the
\* marker file .test_write_permissions and the log file exist.  Before the
\* file-sink block the directory exists only when env says so.
FsBefore(cfg, env) ==
    [dir    |-> cfg.path = "dir" /\ env \in {"dirExists", "probeFails"},
     marker |-> FALSE,
     log    |-> FALSE]

\* std::filesystem::create_directories(logDir), Logger.hpp:234
CreateDirectories(fs) == [fs EXCEPT !.dir = TRUE]

\* std::ofstream testStream(testFile), Logger.hpp:240
OpenMarker(fs) == [fs EXCEPT !.marker = TRUE]

\* (leaving the marker file where it is)
RemoveMarkerSkipped(fs) == fs

\* std::filesystem::remove(testFile), Logger.hpp:244
RemoveMarker(fs) == [fs EXCEPT !.marker = FALSE]

\* The rotating_file_sink constructor opens the log file, Logger.hpp:262
OpenLog(fs) == [fs EXCEPT !.log = TRUE]

\* The file-sink block, Logger.hpp:215-283.  env is what the file system
\* does: "ok" (a missing directory is created, everything succeeds),
\* "dirExists" (the directory is there already, everything succeeds),
\* "mkdirThrows" (create_directories throws), "probeFails" (the marker file
\* cannot be opened in the existing directory), "removeThrows" (the marker
\* file is written but remove throws) or "sinkThrows" (the
\* rotating_file_sink constructor throws).  A path without a parent
\* directory ("bare") skips the directory and the probe.
FileSetup(cfg, env, sinks) ==
    LET fs0    == FsBefore(cfg, env)
        made   == IF cfg.path = "dir" /\ ~fs0.dir THEN CreateDirectories(fs0) ELSE fs0
        probed == IF cfg.path = "dir" THEN RemoveMarker(OpenMarker(made)) ELSE made
    IN  IF cfg.path = "none" THEN [sinks |-> sinks, ret |-> FALSE, diag |-> 0, fs |-> fs0]
        ELSE IF cfg.path = "dir" /\ env = "mkdirThrows"
        THEN OuterCatch(cfg, sinks) @@ [fs |-> fs0]
        ELSE IF cfg.path = "dir" /\ env = "probeFails"
        THEN InnerCatch(cfg, sinks) @@ [fs |-> made]
        ELSE IF cfg.path = "dir" /\ env = "removeThrows"
        THEN InnerCatch(cfg, sinks) @@ [fs |-> OpenMarker(made)]
        ELSE IF env = "sinkThrows" THEN OuterCatch(cfg, sinks) @@ [fs |-> probed]
        ELSE [sinks |-> Append(sinks, FileSink(cfg)), ret |-> FALSE, diag |-> 0,
              fs |-> OpenLog(probed)]

\* (adding the console sink whether or not the vector is empty)
EnsureSinkAlways(cfg, sinks) == Append(sinks, ConsoleSink(cfg))

\* Logger.hpp:285-290
EnsureSink(cfg, sinks) == IF sinks = <<>> THEN <<ConsoleSink(cfg)>> ELSE sinks

\* The sink vector setupLogger ends with, whether it returned early, the
\* warnings it wrote to stderr and what it left in the file system.
SetupSinks(cfg, env) ==
    LET f == FileSetup(cfg, env, ConsoleSetup(cfg))
    IN  IF f.ret THEN f ELSE [f EXCEPT !.sinks = EnsureSink(cfg, f.sinks)]

HasKind(sinks, k) == \E i \in 1..Len(sinks) : sinks[i].kind = k

\* A file of the rotation chain
File(exists, recs) == [exists |-> exists, recs |-> recs]

\* rotating_file_sink constructor: opens the base file.  Every build is
\* given a log file of its own, so the file starts empty with no backup.
\* The disk has the names base (index 0), base.1, ..., base.maxFiles and one
\* name beyond them, base.(maxFiles + 1).
NewChain(maxFiles) ==
    [i \in 0..(maxFiles + 1) |-> IF i = 0 THEN File(TRUE, <<>>) ELSE File(FALSE, <<>>)]

\* The spdlog logger built at Logger.hpp:292-328 with its sinks; conOut is
\* what its console sink wrote, fileIn what was handed to its file sink,
\* chain/curSize the file sink's files and size counter; levelSet/setTo
\* tell whether setLogLevel was called on it and the LogLevel last asked for.
\* pool is the thread pool an async_logger was given (Logger.hpp:302-308),
\* numbered by the init_thread_pool call that made it; 0 for a sync logger.
\* unflushed counts the last records of the active file that file_helper has
\* written with fwrite and that are still in the stream's buffer, not in the
\* file.
NewPipe(cfg, env, sinks) ==
    [async     |-> cfg.async,
     level     |-> convertLevel(cfg.minLevel),
     sinks     |-> sinks,
     maxSize   |-> cfg.maxFileSize,
     maxFiles  |-> cfg.maxFiles,
     conOut    |-> <<>>,
     fileIn    |-> <<>>,
     chain     |-> NewChain(cfg.maxFiles),
     curSize   |-> 0,
     rotations |-> 0,
     rotFailed |-> FALSE,
     levelSet  |-> FALSE,
     setTo     |-> cfg.minLevel,
     cfg       |-> cfg,
     env       |-> env,
     pool      |-> 0,
     unflushed |-> 0]

(***************************************************************************)
(* spdlog::sinks::rotating_file_sink, the sink built at Logger.hpp:262.    *)
(***************************************************************************)
\* rotating_file_sink::rotate_: for i = max_files down to 1 rename
\* base.(i-1) to base.(i) when base.(i-1) exists (the rename removes an
\* existing target first).  A rename that fails (failAt = i) truncates the
\* active file and throws; otherwise the active file is reopened truncated.
RECURSIVE RotateFrom(_, _, _)
RotateFrom(chain, i, failAt) ==
    IF i = 0 THEN [chain |-> [chain EXCEPT ![0] = File(TRUE, <<>>)], ok |-> TRUE]
    ELSE IF ~chain[i - 1].exists THEN RotateFrom(chain, i - 1, failAt)
    ELSE IF i = failAt THEN [chain |-> [chain EXCEPT ![0] = File(TRUE, <<>>)], ok |-> FALSE]
    ELSE RotateFrom([chain EXCEPT ![i] = chain[i - 1], ![i - 1] = File(FALSE, <<>>)],
                    i - 1, failAt)

\* (truncating the active file without moving it into the chain)
rotate_Truncating(pipe, failAt) ==
    [chain |-> [pipe.chain EXCEPT ![0] = File(TRUE, <<>>)], ok |-> TRUE]

\* (the rename loop starting one name too far)
rotate_OneTooFar(pipe, failAt) == RotateFrom(pipe.chain, pipe.maxFiles + 1, failAt)

\* (renaming only the active file, without shifting the older backups)
rotate_OnlyActive(pipe, failAt) == RotateFrom(pipe.chain, 1, failAt)

rotate_(pipe, failAt) == RotateFrom(pipe.chain, pipe.maxFiles, failAt)

\* (rotating already when the new size reaches max_size)
FileSinkItEager(pipe, rec, failAt) ==
    LET newSize == pipe.curSize + RecordSize(rec)
        in0     == [pipe EXCEPT !.fileIn = Append(@, rec)]
    IN  IF newSize >= pipe.maxSize
        THEN LET r == rotate_(pipe, failAt)
             IN  [in0 EXCEPT !.chain = [r.chain EXCEPT ![0].recs = <<rec>>],
                             !.curSize = RecordSize(rec),
                             !.rotations = @ + 1,
                             !.unflushed = 1]
        ELSE [in0 EXCEPT !.chain[0].recs = Append(@, rec),
                         !.curSize = newSize,
                         !.unflushed = @ + 1]

\* (appending without the size check)
FileSinkItNoCheck(pipe, rec, failAt) ==
    [pipe EXCEPT !.fileIn = Append(@, rec),
                 !.chain[0].recs = Append(@, rec),
                 !.curSize = @ + RecordSize(rec),
                 !.unflushed = @ + 1]

\* rotating_file_sink::sink_it_: rotate first when the new size would exceed
\* max_size, then write the record to the active file.  When rotate_ throws
\* the size counter is 0 and the record is not written (the exception goes
\* to the logger's error handler, not to the caller of the log method).
\* This is sink_it_ of spdlog 1.8.0, the version the repository's build
\* instructions name: a record larger than max_size rotates even an empty
\* active file.  file_helper::write is a buffered fwrite; rotate_ closes the
\* active file first, which writes its buffer out.
FileSinkIt(pipe, rec, failAt) ==
    LET newSize == pipe.curSize + RecordSize(rec)
        in0     == [pipe EXCEPT !.fileIn = Append(@, rec)]
    IN  IF newSize > pipe.maxSize
        THEN LET r == rotate_(pipe, failAt)
             IN  IF r.ok
                 THEN [in0 EXCEPT !.chain = [r.chain EXCEPT ![0].recs = <<rec>>],
                                  !.curSize = RecordSize(rec),
                                  !.rotations = @ + 1,
                                  !.unflushed = 1]
                 ELSE [in0 EXCEPT !.chain = r.chain,
                                  !.curSize = 0,
                                  !.rotFailed = TRUE,
                                  !.unflushed = 0]
        ELSE [in0 EXCEPT !.chain[0].recs = Append(@, rec),
                         !.curSize = newSize,
                         !.unflushed = @ + 1]

\* stdout_color_sink::log
ConsoleSinkIt(pipe, rec) == [pipe EXCEPT !.conOut = Append(@, rec)]

SinkLog(pipe, sink, rec, failAt) ==
    IF sink.kind = "console" THEN ConsoleSinkIt(pipe, rec) ELSE FileSinkIt(pipe, rec, failAt)

\* sink::flush on the logger's sinks: file_helper::flush is fflush, which
\* writes the buffered records to the file (closing the file does the same);
\* the console sink flushes on every record.
\* (a flush that leaves the buffer as it is)
FlushedNot(pipe) == pipe

Flushed(pipe) == [pipe EXCEPT !.unflushed = 0]

\* logger::sink_it_ / async_logger::backend_sink_it_: hand the record to
\* every sink whose own level admits it, then flush the sinks when the
\* record is at or above the flush_on level (err, Logger.hpp:312 and 325).
RECURSIVE SinkFrom(_, _, _, _)
SinkFrom(pipe, i, rec, failAt) ==
    IF i > Len(pipe.sinks) THEN pipe
    ELSE SinkFrom(IF should_log(rec.lvl, pipe.sinks[i].level)
                  THEN SinkLog(pipe, pipe.sinks[i], rec, failAt)
                  ELSE pipe,
                  i + 1, rec, failAt)

\* (flushing above err only, as flush_on(critical) would)
should_flush_AboveErr(rec) == rec.lvl > spd_err

should_flush_(rec) == rec.lvl >= spd_err

sink_it_(pipe, rec, failAt) ==
    IF should_flush_(rec) THEN Flushed(SinkFrom(pipe, 1, rec, failAt))
    ELSE SinkFrom(pipe, 1, rec, failAt)

(***************************************************************************)
(* State.                                                                  *)
(***************************************************************************)
VARIABLES
    alive,      \* Logger -> "none" (not constructed) | "building" (inside its
                \* constructor) | "live" | "dead" (destroyed)
                \* ("crashed": the process has crashed in a call on it)
    m_logger,   \* Logger -> NULL or the index in pipes of its spdlog logger
    m_config,   \* Logger -> the stored Config
    pipes,      \* every spdlog logger built so far, with its sinks' output
    poolInit,   \* static bool thread_pool_initialized (Logger.hpp:295)
    poolCap,    \* capacity of the process-wide thread pool's queue
    pools,      \* number of spdlog::init_thread_pool calls made so far; the
                \* pool of the last call is the one spdlog::thread_pool() returns
    building,   \* Thread -> the setupLogger run it is inside, stopped at the
                \* read of thread_pool_initialized (Logger.hpp:295)
    queue,      \* the thread pool's queue of async messages
    pc,         \* Thread -> "idle" | "enq" (inside a post to the queue) | "flushed"
    pend,       \* Thread -> the message it is posting
    sent,       \* Thread -> number of log calls made
    calls,      \* history: every log call that found a logger: its pipeline, its
                \* record, the LogLevel asked of the logger then (lv) and whether
                \* that was by setLogLevel (ls)
    enqueued,   \* history: log messages in the order their enqueue succeeded
    dequeued,   \* history: log messages in the order the worker took them
    flushMark,  \* Thread -> Len(enqueued) when its flush() call began
    flushPipe,  \* Thread -> the pipeline its flush() call was made on
    lastSetup,  \* history: Logger -> its setupLogger runs (config, file-system
                \* outcome, early return, the spdlog logger built if any, the
                \* warnings written to stderr, the files left behind)
    std_cerr,   \* std::cerr: its failbit and the stream buffer it writes to
    guard_old   \* Thread -> the buffer its StderrRedirectGuard will restore,
                \* "none" outside the guard's scope

vars == <<alive, m_logger, m_config, pipes, poolInit, poolCap, pools, building, queue, pc, pend,
          sent, calls, enqueued, dequeued, flushMark, flushPipe, lastSetup,
          std_cerr, guard_old>>

NoConfig == [console |-> FALSE, path |-> "none", minLevel |-> INFO, async |-> FALSE,
             maxFileSize |-> 0, maxFiles |-> 0, queueSize |-> 0]

NoBuild == [l |-> "", cfg |-> NoConfig, env |-> "ok", seen |-> FALSE]

\* The process before any Logger is constructed.
Init ==
    /\ alive = [l \in Loggers |-> "none"]
    /\ m_logger = [l \in Loggers |-> NULL]
    /\ m_config = [l \in Loggers |-> NoConfig]
    /\ pipes = <<>>
    /\ poolInit = FALSE
    /\ poolCap = 0
    /\ pools = 0
    /\ building = [t \in Threads |-> NoBuild]
    /\ queue = <<>>
    /\ pc = [t \in Threads |-> "idle"]
    /\ pend = [t \in Threads |-> NoMsg]
    /\ sent = [t \in Threads |-> 0]
    /\ calls = {}
    /\ enqueued = <<>>
    /\ dequeued = <<>>
    /\ flushMark = [t \in Threads |-> 0]
    /\ flushPipe = [t \in Threads |-> NULL]
    /\ lastSetup = [l \in Loggers |-> <<>>]
    /\ std_cerr = CerrStatic
    /\ guard_old = [t \in Threads |-> "none"]

(***************************************************************************)
(* Operations of Logger.                                                   *)
(***************************************************************************)
\* What a file system can do to the file-sink block of a configuration.
EnvsOf(cfg) ==
    CASE cfg.path = "none" -> {"ok"}
      [] cfg.path = "bare" -> {"ok", "sinkThrows"}
      [] cfg.path = "dir"  -> {"ok", "mkdirThrows", "probeFails", "sinkThrows"}

\* (handing out the logger and sinks built last instead of new ones)
NewLoggerReused(ps) == IF ps = <<>> THEN 1 ELSE Len(ps)

\* std::make_shared of the sinks (Logger.hpp:208, 262) and of the logger
\* (Logger.hpp:301, 316): objects that did not exist before
NewLogger(ps) == Len(ps) + 1

\* A message in the queue, or being posted or written, keeps its spdlog
\* logger and the sinks alive.
InUse(p) ==
    \/ \E i \in 1..Len(queue) : queue[i].pipe = p
    \/ \E t \in Threads : pend[t].pipe = p /\ pend[t].kind # "call"

\* The effect of setupLogger(cfg) on Logger l, Logger.hpp:204-329: unless it
\* returned early, a new spdlog logger over the sinks replaces m_logger (the
\* old one is destroyed, and its file closed, unless a queued message still
\* holds it); the first async build initialises the thread pool with its
\* queueSize.
Setup(l, cfg, env) ==
    LET r  == SetupSinks(cfg, env)
        id == NewLogger(pipes)
        np == IF ~r.ret /\ cfg.async /\ ~poolInit THEN pools + 1 ELSE pools
        old == m_logger[l]
        rel == IF old # NULL /\ ~InUse(old) THEN [pipes EXCEPT ![old] = Flushed(@)]
               ELSE pipes
    IN  /\ pipes' = IF r.ret THEN pipes
                  ELSE Append(rel, [NewPipe(cfg, env, r.sinks) EXCEPT
                                       !.pool = IF cfg.async THEN np ELSE 0])
        /\ m_logger' = IF r.ret THEN m_logger ELSE [m_logger EXCEPT ![l] = id]
        /\ poolInit' = (poolInit \/ (~r.ret /\ cfg.async))
        /\ poolCap' = IF ~r.ret /\ cfg.async /\ ~poolInit THEN cfg.queueSize ELSE poolCap
        /\ pools' = np
        /\ UNCHANGED building
        /\ lastSetup' = [lastSetup EXCEPT ![l] =
                            Append(@, [cfg |-> cfg, env |-> env, ret |-> r.ret,
                                       pipe |-> IF r.ret THEN NULL ELSE id,
                                       diag |-> r.diag, fs |-> r.fs])]

\* Logger::Logger(config), Logger.hpp:116-118
Construct(l, cfg, env) ==
    /\ alive[l] = "none"
    /\ Len(lastSetup[l]) < MaxSetups
    /\ alive' = [alive EXCEPT ![l] = "live"]
    /\ m_config' = [m_config EXCEPT ![l] = cfg]
    /\ Setup(l, cfg, env)
    /\ std_cerr' = StderrAfter(cfg, std_cerr)
    /\ UNCHANGED <<guard_old, queue, pc, pend, sent, calls, enqueued, dequeued, flushMark,
                   flushPipe>>

\* Logger::Logger(config) on thread t with an async configuration, up to
\* the read of the function-local static thread_pool_initialized at
\* Logger.hpp:295.  The flag is a plain bool read and written without
\* synchronisation, so a constructor running on another thread may read it
\* before this one sets it.
BeginSetup(t, l, cfg, env) ==
    /\ alive[l] = "none"
    /\ pc[t] = "idle"
    /\ Len(lastSetup[l]) < MaxSetups
    /\ cfg.async
    /\ ~SetupSinks(cfg, env).ret
    /\ alive' = [alive EXCEPT ![l] = "building"]
    /\ m_config' = [m_config EXCEPT ![l] = cfg]
    /\ pc' = [pc EXCEPT ![t] = "setup"]
    /\ building' = [building EXCEPT ![t] =
                        [l |-> l, cfg |-> cfg, env |-> env, seen |-> poolInit]]
    /\ std_cerr' = StderrAfter(cfg, std_cerr)
    /\ UNCHANGED <<guard_old, m_logger, pipes, poolInit, poolCap, pools, queue, pend,
                   sent, calls, enqueued, dequeued, flushMark, flushPipe, lastSetup>>

\* The rest of that constructor, Logger.hpp:295-329.  If the flag was read
\* false, spdlog::init_thread_pool(queueSize, 1) installs a new pool; an
\* earlier pool is destroyed inside that call, which returns once the old
\* pool's worker has emptied its queue and no thread is posting to it.  The
\* async_logger is then built on spdlog::thread_pool().
FinishSetup(t) ==
    LET b  == building[t]
        id == NewLogger(pipes)
        np == IF b.seen THEN pools ELSE pools + 1
    IN  /\ pc[t] = "setup"
        /\ ~b.seen /\ pools > 0 => queue = <<>> /\ \A u \in Threads : pc[u] # "enq"
        /\ pools' = np
        /\ poolInit' = TRUE
        /\ poolCap' = IF b.seen THEN poolCap ELSE b.cfg.queueSize
        /\ pipes' = Append(pipes, [NewPipe(b.cfg, b.env, SetupSinks(b.cfg, b.env).sinks)
                                      EXCEPT !.pool = np])
        /\ m_logger' = [m_logger EXCEPT ![b.l] = id]
        /\ lastSetup' = [lastSetup EXCEPT ![b.l] =
                            Append(@, [cfg |-> b.cfg, env |-> b.env, ret |-> FALSE,
                                       pipe |-> id,
                                       diag |-> SetupSinks(b.cfg, b.env).diag,
                                       fs |-> SetupSinks(b.cfg, b.env).fs])]
        /\ alive' = [alive EXCEPT ![b.l] = "live"]
        /\ pc' = [pc EXCEPT ![t] = "idle"]
        /\ building' = [building EXCEPT ![t] = NoBuild]
        /\ UNCHANGED <<std_cerr, guard_old, m_config, queue, pend, sent, calls, enqueued,
                       dequeued, flushMark, flushPipe>>

\* Logger::setConfig, Logger.hpp:181-184
SetConfig(t, l, cfg, env) ==
    /\ alive[l] = "live"
    /\ pc[t] = "idle"
    /\ Len(lastSetup[l]) < MaxSetups
    /\ m_config' = [m_config EXCEPT ![l] = cfg]
    /\ Setup(l, cfg, env)
    /\ std_cerr' = StderrAfter(cfg, std_cerr)
    /\ UNCHANGED <<guard_old, alive, queue, pc, pend, sent, calls, enqueued, dequeued,
                   flushMark, flushPipe>>

\* The std::stringstream buffer of thread t's setupLogger call,
\* Logger.hpp:218: a local of the try block, destroyed when the block is left
Buffer(t) == IF t = 1 THEN "buffer1" ELSE "buffer2"

\* The constructor or setConfig on thread t with a file path, up to the
\* construction of the StderrRedirectGuard, Logger.hpp:204-225: the guard
\* keeps the buffer std::cerr has at that moment and installs the call's own.
\* std::cerr is one object for the whole process and nothing serialises the
\* calls of different threads.
EnterFileBlock(t, l, cfg, env) ==
    /\ alive[l] \in {"none", "live"}
    /\ pc[t] = "idle"
    /\ Len(lastSetup[l]) < MaxSetups
    /\ cfg.path # "none"
    /\ alive' = [alive EXCEPT ![l] = "building"]
    /\ m_config' = [m_config EXCEPT ![l] = cfg]
    /\ pc' = [pc EXCEPT ![t] = "guard"]
    /\ building' = [building EXCEPT ![t] =
                        [l |-> l, cfg |-> cfg, env |-> env, seen |-> poolInit]]
    /\ guard_old' = [guard_old EXCEPT ![t] = std_cerr.buf]
    /\ std_cerr' = GuardOn(std_cerr, Buffer(t))
    /\ UNCHANGED <<m_logger, pipes, poolInit, poolCap, pools, queue, pend, sent, calls,
                   enqueued, dequeued, flushMark, flushPipe, lastSetup>>

\* The rest of that call, Logger.hpp:226-329: the file-sink block ends, by
\* any of its exits, with the guard's destructor, which installs the buffer
\* the guard kept; then the stringstream is destroyed and the logger built.
LeaveFileBlock(t) ==
    LET b == building[t]
    IN  /\ pc[t] = "guard"
        /\ std_cerr' = GuardOff(std_cerr, guard_old[t])
        /\ guard_old' = [guard_old EXCEPT ![t] = "none"]
        /\ Setup(b.l, b.cfg, b.env)
        /\ alive' = [alive EXCEPT ![b.l] = "live"]
        /\ pc' = [pc EXCEPT ![t] = "idle"]
        /\ UNCHANGED <<m_config, queue, pend, sent, calls, enqueued, dequeued, flushMark,
                       flushPipe>>

\* (a setLogLevel that also moves the threshold of every sink)
SetLogLevelWithSinks(t, l, level) ==
    /\ alive[l] = "live"
    /\ pc[t] = "idle"
    /\ m_logger[l] # NULL
    /\ pipes' = [pipes EXCEPT ![m_logger[l]].level = convertLevel(level),
                              ![m_logger[l]].levelSet = TRUE,
                              ![m_logger[l]].setTo = level,
                              ![m_logger[l]].sinks =
                                  [i \in DOMAIN @ |->
                                      [@[i] EXCEPT !.level = convertLevel(level)]]]
    /\ m_config' = [m_config EXCEPT ![l].minLevel = level]
    /\ UNCHANGED <<std_cerr, guard_old, alive, m_logger, poolInit, poolCap, pools,
                   building, queue, pc, pend, sent, calls, enqueued, dequeued, flushMark,
                   flushPipe, lastSetup>>

\* Logger::setLogLevel, Logger.hpp:170-175
SetLogLevel(t, l, level) ==
    /\ alive[l] = "live"
    /\ pc[t] = "idle"
    /\ m_logger[l] # NULL
    /\ pipes' = [pipes EXCEPT ![m_logger[l]].level = convertLevel(level),
                              ![m_logger[l]].levelSet = TRUE,
                              ![m_logger[l]].setTo = level]
    /\ m_config' = [m_config EXCEPT ![l].minLevel = level]
    /\ UNCHANGED <<std_cerr, guard_old, alive, m_logger, poolInit, poolCap, pools,
                   building, queue, pc, pend, sent, calls, enqueued, dequeued, flushMark,
                   flushPipe, lastSetup>>

\* async_logger::sink_it_ and flush_ post to the pool the logger was built
\* with, held by weak_ptr: once a later init_thread_pool call has replaced
\* that pool the weak_ptr is expired, nothing is posted and the call raises
\* spdlog_ex ("thread pool doesn't exist anymore").
Posts(p) == pipes[p].async /\ pipes[p].pool = pools

\* (calling through the empty handle: the process crashes)
WithoutLoggerDeref(t, l) ==
    /\ alive' = [alive EXCEPT ![l] = "crashed"]
    /\ UNCHANGED <<calls, pipes, pend, pc>>

\* if (m_logger) is false: the method does nothing
WithoutLogger(t, l) == UNCHANGED <<alive, calls, pipes, pend, pc>>

\* Logger::info/warning/error/debug/trace/fatal, Logger.hpp:130-164, into
\* spdlog::logger::log: nothing without a logger; nothing below the logger's
\* level; a synchronous logger writes to its sinks on the calling thread; an
\* async_logger posts the message to the thread pool (async_logger::sink_it_).
\* max bounds the calls a thread makes.
LogCallUpTo(t, l, method, failAt, max) ==
    LET p   == m_logger[l]
        rec == Rec(t, sent[t] + 1, method)
        on  == should_log(rec.lvl, pipes[p].level)
    IN  /\ alive[l] = "live"
        /\ pc[t] = "idle"
        /\ sent[t] < max
        /\ sent' = [sent EXCEPT ![t] = @ + 1]
        /\ IF p = NULL THEN WithoutLogger(t, l)
           ELSE /\ calls' = calls \cup {[pipe |-> p, rec |-> rec, lv |-> pipes[p].setTo,
                                          ls |-> pipes[p].levelSet]}
                /\ pipes' = IF on /\ ~pipes[p].async
                            THEN [pipes EXCEPT ![p] = sink_it_(@, rec, failAt)]
                            ELSE pipes
                /\ pend' = IF on /\ Posts(p)
                           THEN [pend EXCEPT ![t] = Msg("log", p, rec)]
                           ELSE pend
                /\ pc' = IF on /\ Posts(p) THEN [pc EXCEPT ![t] = "enq"] ELSE pc
                /\ UNCHANGED alive
        /\ UNCHANGED <<std_cerr, guard_old, m_logger, m_config, poolInit, poolCap, pools,
                       building, queue, enqueued, dequeued, flushMark, flushPipe,
                       lastSetup>>

LogCall(t, l, method, failAt) == LogCallUpTo(t, l, method, failAt, MaxMsgs)

\* Some Logger's m_logger or a message of the pool still holds a shared_ptr
\* to the spdlog logger p: the object exists.
Owned(p) == (\E l \in Loggers : m_logger[l] = p) \/ InUse(p)

\* A log method in two steps, Logger.hpp:130-134.  First step: if (m_logger)
\* and the load of the pointer for m_logger->.  m_logger is a plain
\* std::shared_ptr member that setupLogger assigns at Logger.hpp:314 and 327
\* with no lock or atomic operation: the calling thread holds the raw pointer
\* it loaded, not a reference.
LogRead(t, l, method) ==
    LET p   == m_logger[l]
        rec == Rec(t, sent[t] + 1, method)
    IN  /\ alive[l] = "live"
        /\ pc[t] = "idle"
        /\ sent[t] < MaxMsgs
        /\ p # NULL
        /\ sent' = [sent EXCEPT ![t] = @ + 1]
        /\ calls' = calls \cup {[pipe |-> p, rec |-> rec, lv |-> pipes[p].setTo,
                                  ls |-> pipes[p].levelSet]}
        /\ pend' = [pend EXCEPT ![t] = Msg("call", p, rec)]
        /\ pc' = [pc EXCEPT ![t] = "call"]
        /\ UNCHANGED <<std_cerr, guard_old, alive, m_logger, m_config, pipes, poolInit,
                       poolCap, pools, building, queue, enqueued, dequeued, flushMark,
                       flushPipe, lastSetup>>

\* Second step: spdlog::logger::log through the loaded pointer.  While the
\* object is owned this is the log call.  When a setConfig in between has
\* released the last reference the object is destroyed and the call is
\* undefined behaviour; outcome is what the process then does: "old" (the
\* freed logger still works), "dropped" (nothing is written) or "crash".
LogThrough(t, outcome, failAt) ==
    LET p   == pend[t].pipe
        rec == pend[t].rec
        on  == should_log(rec.lvl, pipes[p].level)
        ok  == Owned(p) \/ outcome = "old"
    IN  /\ pc[t] = "call"
        /\ pipes' = IF ok /\ on /\ ~pipes[p].async
                    THEN [pipes EXCEPT ![p] = sink_it_(@, rec, failAt)]
                    ELSE pipes
        /\ pend' = IF ok /\ on /\ Posts(p)
                   THEN [pend EXCEPT ![t] = Msg("log", p, rec)]
                   ELSE [pend EXCEPT ![t] = NoMsg]
        /\ pc' = [pc EXCEPT ![t] = IF ok /\ on /\ Posts(p) THEN "enq" ELSE "idle"]
        /\ alive' = IF ~ok /\ outcome = "crash"
                    THEN [l \in Loggers |-> "crashed"]
                    ELSE alive
        /\ UNCHANGED <<std_cerr, guard_old, m_logger, m_config, poolInit, poolCap, pools,
                       building, queue, sent, calls, enqueued, dequeued, flushMark,
                       flushPipe, lastSetup>>

\* Logger::flush, Logger.hpp:189-193, into spdlog::logger::flush: a
\* synchronous logger flushes its sinks; async_logger::flush_ posts a flush
\* request to the thread pool and returns once it is enqueued.
Flush(t, l) ==
    LET p == m_logger[l]
    IN  /\ alive[l] = "live"
        /\ pc[t] = "idle"
        /\ flushMark' = [flushMark EXCEPT ![t] = Len(enqueued)]
        /\ flushPipe' = [flushPipe EXCEPT ![t] = p]
        /\ pend' = IF p # NULL /\ Posts(p)
                   THEN [pend EXCEPT ![t] = Msg("flush", p, NoRec(t))]
                   ELSE pend
        /\ pc' = IF p # NULL /\ Posts(p)
                 THEN [pc EXCEPT ![t] = "enq"]
                 ELSE [pc EXCEPT ![t] = "flushed"]
        /\ pipes' = IF p # NULL /\ ~pipes[p].async
                    THEN [pipes EXCEPT ![p] = Flushed(@)]
                    ELSE pipes
        /\ UNCHANGED <<std_cerr, guard_old, alive, m_logger, m_config, poolInit, poolCap,
                       pools, building, queue, sent, calls, enqueued, dequeued,
                       lastSetup>>

\* Logger::~Logger, Logger.hpp:123-127: flush() on the logger if there is
\* one, as in Logger::flush; then the members are destroyed, which releases
\* the Logger's handle on the spdlog logger.
Destroy(t, l) ==
    LET p == m_logger[l]
    IN  /\ alive[l] = "live"
        /\ pc[t] = "idle"
        /\ alive' = [alive EXCEPT ![l] = "dead"]
        /\ m_logger' = [m_logger EXCEPT ![l] = NULL]
        /\ flushMark' = [flushMark EXCEPT ![t] = Len(enqueued)]
        /\ flushPipe' = [flushPipe EXCEPT ![t] = p]
        /\ pend' = IF p # NULL /\ Posts(p)
                   THEN [pend EXCEPT ![t] = Msg("flush", p, NoRec(t))]
                   ELSE pend
        /\ pc' = IF p # NULL /\ Posts(p)
                 THEN [pc EXCEPT ![t] = "enq"]
                 ELSE [pc EXCEPT ![t] = "flushed"]
        /\ pipes' = IF p # NULL /\ ~pipes[p].async
                    THEN [pipes EXCEPT ![p] = Flushed(@)]
                    ELSE pipes
        /\ UNCHANGED <<std_cerr, guard_old, m_config, poolInit, poolCap, pools, building,
                       queue, sent, calls, enqueued, dequeued, lastSetup>>

\* flush() returns to its caller.
FlushReturn(t) ==
    /\ pc[t] = "flushed"
    /\ pc' = [pc EXCEPT ![t] = "idle"]
    /\ flushMark' = [flushMark EXCEPT ![t] = 0]
    /\ flushPipe' = [flushPipe EXCEPT ![t] = NULL]
    /\ UNCHANGED <<std_cerr, guard_old, alive, m_logger, m_config, pipes, poolInit,
                   poolCap, pools, building, queue, pend, sent, calls, enqueued, dequeued,
                   lastSetup>>

(***************************************************************************)
(* spdlog::details::thread_pool, used at Logger.hpp:297-308.               *)
(***************************************************************************)
\* (pushing at the front)
EnqueueFront(q, cap, m) == <<m>> \o q

\* mpmc_blocking_queue::enqueue: push_back
EnqueueItem(q, cap, m) == Append(q, m)

\* (posting without waiting for room)
CanEnqueueAlways(q, cap) == TRUE

\* Under async_overflow_policy::block (Logger.hpp:307) the post waits until
\* the queue has room.
CanEnqueue(q, cap) == Len(q) < cap

\* thread_pool::post_async_msg_ with the block policy: the posting thread
\* proceeds only when the queue is not full.
Enqueue(t) ==
    /\ pc[t] = "enq"
    /\ CanEnqueue(queue, poolCap)
    /\ queue' = EnqueueItem(queue, poolCap, pend[t])
    /\ enqueued' = IF pend[t].kind = "log" THEN Append(enqueued, pend[t]) ELSE enqueued
    /\ pc' = [pc EXCEPT ![t] = IF pend[t].kind = "flush" THEN "flushed" ELSE "idle"]
    /\ pend' = [pend EXCEPT ![t] = NoMsg]
    /\ UNCHANGED <<std_cerr, guard_old, alive, m_logger, m_config, pipes, poolInit,
                   poolCap, pools, building, sent, calls, dequeued, flushMark, flushPipe,
                   lastSetup>>

\* (the worker taking the newest message instead of the oldest)
DequeueLast(q) == [msg |-> q[Len(q)], rest |-> SubSeq(q, 1, Len(q) - 1)]

\* mpmc_blocking_queue::dequeue_for: pop the front
DequeueItem(q) == [msg |-> Head(q), rest |-> Tail(q)]

\* thread_pool::process_next_msg_ on the pool's single worker thread: a log
\* message goes to the sinks of the logger that posted it
\* (backend_sink_it_), a flush request flushes them (backend_flush_).  The
\* message held a shared_ptr to its logger: if that was the last one, the
\* logger and its sinks are destroyed and the file is closed.
WorkerStep(failAt) ==
    /\ queue # <<>>
    /\ LET d == DequeueItem(queue)
           m == d.msg
           last == /\ \A l \in Loggers : m_logger[l] # m.pipe
                   /\ \A i \in 1..Len(d.rest) : d.rest[i].pipe # m.pipe
                   /\ \A t \in Threads : pend[t].pipe # m.pipe
           done == IF m.kind = "log" THEN sink_it_(pipes[m.pipe], m.rec, failAt)
                   ELSE Flushed(pipes[m.pipe])
       IN  /\ queue' = d.rest
           /\ pipes' = [pipes EXCEPT ![m.pipe] = IF last THEN Flushed(done) ELSE done]
           /\ dequeued' = IF m.kind = "log" THEN Append(dequeued, m) ELSE dequeued
    /\ UNCHANGED <<std_cerr, guard_old, alive, m_logger, m_config, poolInit, poolCap,
                   pools, building, pc, pend, sent, calls, enqueued, flushMark, flushPipe,
                   lastSetup>>

(***************************************************************************)
(* The synchronous write path in the steps of base_sink<std::mutex>::log,  *)
(* for the rotating_file_sink_mt built at Logger.hpp:262: take the sink's  *)
(* mutex, compare sizes, rotate, write, release.                           *)
(***************************************************************************)
\* The threads inside log() of pipeline p's file sink
InSink(p) == {t \in Threads : pc[t] \in {"check", "rotate", "write"} /\ pend[t].pipe = p}

\* (entering without the mutex)
CanLockAlways(p) == TRUE

\* std::lock_guard<std::mutex> in base_sink::log: one thread at a time
CanLock(p) == InSink(p) = {}

\* Some sink of the kind admits the record
Admits(pipe, kind, rec) ==
    \E i \in 1..Len(pipe.sinks) :
        pipe.sinks[i].kind = kind /\ should_log(rec.lvl, pipe.sinks[i].level)

\* A log method on a synchronous logger, up to the file sink's mutex: the
\* console sink comes first in the sink vector and is written at once, then
\* the thread goes for the file sink.
LogCallSync(t, l, method) ==
    LET p    == m_logger[l]
        rec  == Rec(t, sent[t] + 1, method)
        on   == should_log(rec.lvl, pipes[p].level)
        file == on /\ Admits(pipes[p], "file", rec)
        out  == IF on /\ Admits(pipes[p], "console", rec)
                THEN ConsoleSinkIt(pipes[p], rec) ELSE pipes[p]
        con  == IF on /\ ~file /\ should_flush_(rec) THEN Flushed(out) ELSE out
    IN  /\ alive[l] = "live"
        /\ pc[t] = "idle"
        /\ sent[t] < MaxMsgs
        /\ p # NULL
        /\ ~pipes[p].async
        /\ sent' = [sent EXCEPT ![t] = @ + 1]
        /\ calls' = calls \cup {[pipe |-> p, rec |-> rec, lv |-> pipes[p].setTo,
                                  ls |-> pipes[p].levelSet]}
        /\ pipes' = [pipes EXCEPT ![p] = con]
        /\ pend' = IF file THEN [pend EXCEPT ![t] = Msg("log", p, rec)] ELSE pend
        /\ pc' = IF file THEN [pc EXCEPT ![t] = "lock"] ELSE pc
        /\ UNCHANGED <<std_cerr, guard_old, alive, m_logger, m_config, poolInit, poolCap,
                       pools, building, queue, enqueued, dequeued, flushMark, flushPipe,
                       lastSetup>>

\* base_sink::log: lock the mutex
SinkLock(t) ==
    /\ pc[t] = "lock"
    /\ CanLock(pend[t].pipe)
    /\ pc' = [pc EXCEPT ![t] = "check"]
    /\ UNCHANGED <<std_cerr, guard_old, alive, m_logger, m_config, pipes, poolInit,
                   poolCap, pools, building, queue, pend, sent, calls, enqueued, dequeued,
                   flushMark, flushPipe, lastSetup>>

\* rotating_file_sink::sink_it_: the size comparison
SinkCheck(t) ==
    LET p   == pend[t].pipe
        rec == pend[t].rec
    IN  /\ pc[t] = "check"
        /\ pipes' = [pipes EXCEPT ![p].fileIn = Append(@, rec)]
        /\ pc' = [pc EXCEPT ![t] = IF pipes[p].curSize + RecordSize(rec) > pipes[p].maxSize
                                   THEN "rotate" ELSE "write"]
        /\ UNCHANGED <<std_cerr, guard_old, alive, m_logger, m_config, poolInit, poolCap,
                       pools, building, queue, pend, sent, calls, enqueued, dequeued,
                       flushMark, flushPipe, lastSetup>>

\* rotating_file_sink::sink_it_: rotate_(); a failed rename throws out of
\* log(), which releases the mutex.
SinkRotate(t, failAt) ==
    LET p == pend[t].pipe
        r == rotate_(pipes[p], failAt)
    IN  /\ pc[t] = "rotate"
        /\ pipes' = [pipes EXCEPT ![p].chain = r.chain,
                                  ![p].curSize = 0,
                                  ![p].unflushed = 0,
                                  ![p].rotations = IF r.ok THEN @ + 1 ELSE @,
                                  ![p].rotFailed = IF r.ok THEN @ ELSE TRUE]
        /\ pc' = [pc EXCEPT ![t] = IF r.ok THEN "write" ELSE "idle"]
        /\ pend' = IF r.ok THEN pend ELSE [pend EXCEPT ![t] = NoMsg]
        /\ UNCHANGED <<std_cerr, guard_old, alive, m_logger, m_config, poolInit, poolCap,
                       pools, building, queue, sent, calls, enqueued, dequeued, flushMark,
                       flushPipe, lastSetup>>

\* rotating_file_sink::sink_it_: file_helper_.write, then log() returns and
\* releases the mutex; back in logger::sink_it_ the sinks are flushed for a
\* record at or above the flush_on level.
SinkWrite(t) ==
    LET p   == pend[t].pipe
        rec == pend[t].rec
    IN  /\ pc[t] = "write"
        /\ pipes' = [pipes EXCEPT ![p].chain[0].recs = Append(@, rec),
                                  ![p].curSize = @ + RecordSize(rec),
                                  ![p].unflushed = IF should_flush_(rec) THEN 0 ELSE @ + 1]
        /\ pc' = [pc EXCEPT ![t] = "idle"]
        /\ pend' = [pend EXCEPT ![t] = NoMsg]
        /\ UNCHANGED <<std_cerr, guard_old, alive, m_logger, m_config, poolInit, poolCap,
                       pools, building, queue, sent, calls, enqueued, dequeued, flushMark,
                       flushPipe, lastSetup>>

(***************************************************************************)
(* Specifications.                                                         *)
(***************************************************************************)
Cfg(console, path, minLevel, async, maxFileSize, maxFiles, queueSize) ==
    [console |-> console, path |-> path, minLevel |-> minLevel, async |-> async,
     maxFileSize |-> maxFileSize, maxFiles |-> maxFiles, queueSize |-> queueSize]

\* The steps of the program, with their inputs drawn from the given sets:
\* calling threads, configurations, log methods, levels for setLogLevel and
\* the rotation step at which a rename may fail (0: none fails).
CtorStepsOn(Ls, Cfgs) ==
    \E l \in Ls, cfg \in Cfgs : \E env \in EnvsOf(cfg) : Construct(l, cfg, env)

\* The specifications of a single Logger construct Logger A only.
CtorSteps(Cfgs) == CtorStepsOn({"A"}, Cfgs)

ConfigSteps(Ts, Cfgs) ==
    \E t \in Ts, l \in Loggers, cfg \in Cfgs : \E env \in EnvsOf(cfg) : SetConfig(t, l, cfg, env)

LogSteps(Ts, Meths, Fails) ==
    \/ \E t \in Ts, l \in Loggers, m \in Meths, f \in Fails : LogCall(t, l, m, f)
    \/ \E t \in Ts : Enqueue(t)
    \/ \E f \in Fails : WorkerStep(f)

LevelSteps(Ts, Lvls) ==
    \E t \in Ts, l \in Loggers, level \in Lvls : SetLogLevel(t, l, level)

FlushSteps(Ts) ==
    \/ \E t \in Ts, l \in Loggers : Flush(t, l)
    \/ \E t \in Ts : FlushReturn(t)

\* A file size no run of the model reaches
BigFile == 8

\* Spec: pipeline building.  One calling thread, every shape of
\* configuration and every file-system outcome of the file-sink block.
BuildConfigs ==
    {Cfg(c, p, INFO, a, BigFile, 1, 1) :
        c \in BOOLEAN, p \in {"none", "bare", "dir"}, a \in BOOLEAN}

Next ==
    \/ CtorSteps(BuildConfigs)
    \/ ConfigSteps({1}, BuildConfigs)
    \/ LogSteps({1}, {"info"}, {0})

Spec == Init /\ [][Next]_vars

\* SpecLevel: level filtering on a constructed Logger.  One calling thread,
\* console and file sinks, sync and async, two build levels, setLogLevel
\* above and below them.
LevelConfigs ==
    {Cfg(TRUE, p, lv, a, BigFile, 1, 1) :
        p \in {"none", "bare"}, lv \in {INFO, ERROR}, a \in BOOLEAN}

NextLevel ==
    \/ CtorSteps(LevelConfigs)
    \/ LogSteps({1}, {"debug", "info", "error"}, {0})
    \/ LevelSteps({1}, {DEBUG, ERROR})

SpecLevel == Init /\ [][NextLevel]_vars

\* SpecAsync: async dispatch.  Two producers with two severities, queue
\* capacities 1 and 2, and setConfig to a second async pipeline that shares
\* the thread pool's queue with the first.
AsyncConfigs == {Cfg(TRUE, "none", INFO, TRUE, BigFile, 1, q) : q \in {1, 2}}
ReConfigs == {Cfg(TRUE, "none", INFO, TRUE, BigFile, 1, 1)}

NextAsync ==
    \/ CtorSteps(AsyncConfigs)
    \/ ConfigSteps({1}, ReConfigs)
    \/ LogSteps(Threads, {"info", "error"}, {0})

SpecAsync == Init /\ [][NextAsync]_vars

\* SpecFlush: async dispatch with flush().  Two producers with two
\* severities, queue capacities 1 and 2, flush requests sharing the queue.
NextFlush ==
    \/ CtorSteps(AsyncConfigs)
    \/ LogSteps(Threads, {"info", "error"}, {0})
    \/ FlushSteps({1})

SpecFlush == Init /\ [][NextFlush]_vars

\* SpecRotate: a rotating file sink under two producers, sync and async,
\* with small files, up to two backups and renames that may fail.
RotateConfigs ==
    {Cfg(FALSE, "bare", INFO, a, sz, mf, 2) :
        a \in BOOLEAN, sz \in {1, 2}, mf \in {0, 1, 2}}

NextRotate ==
    \/ CtorSteps(RotateConfigs)
    \/ LogSteps(Threads, {"info"}, {0, 1, 2})
    \/ FlushSteps({1})

SpecRotate == Init /\ [][NextRotate]_vars

\* SpecSize: a rotating file sink fed records of sizes 1 and 2, some larger
\* than the file size limit, by two threads; the first rename may fail.
SizeConfigs ==
    {Cfg(FALSE, "bare", INFO, a, sz, 1, 1) : a \in BOOLEAN, sz \in {1, 2, 3}}

NextSize ==
    \/ CtorSteps(SizeConfigs)
    \/ LogSteps(Threads, {"info", "error"}, {0, 1})

SpecSize == Init /\ [][NextSize]_vars

\* SpecFill: one thread fills a log file of at most 100 bytes with two
\* backups by records of 10 bytes (warning), sync and async.
FillConfigs == {Cfg(FALSE, "bare", INFO, a, 100, 2, q) : a \in BOOLEAN, q \in {1, 2}}

NextFill ==
    \/ CtorSteps(FillConfigs)
    \/ \E l \in Loggers : LogCallUpTo(1, l, "warning", 0, FillMsgs)
    \/ Enqueue(1)
    \/ WorkerStep(0)

SpecFill == Init /\ [][NextFill]_vars

\* SpecSerial: two threads writing through one synchronous Logger, the
\* file sink's log() taken step by step.
SerialConfigs ==
    {Cfg(c, "bare", INFO, FALSE, sz, mf, 1) : c \in BOOLEAN, sz \in {1, 2}, mf \in {1, 2}}

NextSerial ==
    \/ CtorSteps(SerialConfigs)
    \/ \E t \in Threads, l \in Loggers : LogCallSync(t, l, "info")
    \/ \E t \in Threads : SinkLock(t)
    \/ \E t \in Threads : SinkCheck(t)
    \/ \E t \in Threads : SinkRotate(t, 0)
    \/ \E t \in Threads : SinkWrite(t)

SpecSerial == Init /\ [][NextSerial]_vars

\* SpecNull: the six log methods on Loggers built over a log directory,
\* among them those the failed write probe has left without a logger.
Methods == {"trace", "debug", "info", "warning", "error", "fatal"}

NullConfigs == {Cfg(c, "dir", INFO, a, BigFile, 1, 1) : c \in BOOLEAN, a \in BOOLEAN}

NextNull ==
    \/ CtorSteps(NullConfigs)
    \/ LogSteps({1}, Methods, {0})

SpecNull == Init /\ [][NextNull]_vars

\* SpecShutdown: an async Logger under two producers is reconfigured and
\* destroyed while records wait in the queue.
NextShutdown ==
    \/ CtorSteps(AsyncConfigs)
    \/ ConfigSteps({1}, ReConfigs)
    \/ LogSteps(Threads, {"info"}, {0})
    \/ \E l \in Loggers : Destroy(1, l)
    \/ FlushReturn(1)

SpecShutdown == Init /\ [][NextShutdown]_vars

\* SpecPool: Loggers constructed from two threads at once, sync and async,
\* and rebuilt by setConfig.
PoolConfigs == {Cfg(TRUE, "none", INFO, a, BigFile, 1, 1) : a \in BOOLEAN}

NextPool ==
    \/ CtorStepsOn(Loggers, PoolConfigs)
    \/ \E t \in Threads, l \in Loggers, cfg \in PoolConfigs : BeginSetup(t, l, cfg, "ok")
    \/ \E t \in Threads : FinishSetup(t)
    \/ ConfigSteps({1}, PoolConfigs)
    \/ LogSteps({1}, {"info"}, {0})

SpecPool == Init /\ [][NextPool]_vars

\* SpecGuard: two threads constructing and reconfiguring two Loggers with a
\* file path, each call in two steps around its StderrRedirectGuard.
GuardConfigs == {Cfg(TRUE, "dir", INFO, FALSE, BigFile, 1, 1)}

NextGuard ==
    \/ \E t \in Threads, l \in Loggers, cfg \in GuardConfigs, env \in {"ok", "probeFails"} :
            EnterFileBlock(t, l, cfg, env)
    \/ \E t \in Threads : LeaveFileBlock(t)
    \/ \E l \in Loggers : LogCall(1, l, "info", 0)

SpecGuard == Init /\ [][NextGuard]_vars

\* SpecShared: two async Loggers with the same queueSize, each logged
\* through by either thread.
SharedConfigs == {Cfg(TRUE, "none", INFO, TRUE, BigFile, 1, 1)}

NextShared ==
    \/ CtorStepsOn(Loggers, SharedConfigs)
    \/ LogSteps(Threads, {"info"}, {0})

SpecShared == Init /\ [][NextShared]_vars

\* SpecSync: a file sink with and without a console sink, sync and async,
\* records below and at the flush_on level, and flush().
SyncConfigs == {Cfg(c, "bare", INFO, a, 2, 1, 1) : c \in BOOLEAN, a \in BOOLEAN}

NextSync ==
    \/ CtorSteps(SyncConfigs)
    \/ LogSteps({1}, {"info", "error"}, {0})
    \/ FlushSteps({1})

SpecSync == Init /\ [][NextSync]_vars

\* SpecFlushOn: a file sink written by records around the flush_on level,
\* sync and async, with and without rotation, and no flush() call.
FlushOnConfigs == {Cfg(FALSE, "bare", INFO, a, sz, 1, 1) : a \in BOOLEAN, sz \in {2, BigFile}}

NextFlushOn ==
    \/ CtorSteps(FlushOnConfigs)
    \/ LogSteps({1}, {"info", "warning", "error", "fatal"}, {0})

SpecFlushOn == Init /\ [][NextFlushOn]_vars

\* SpecSwap: thread 1 constructs and reconfigures a Logger while thread 2
\* logs through it, the log call in two steps.
SwapConfigs == {Cfg(TRUE, "none", INFO, a, BigFile, 1, 1) : a \in BOOLEAN}

NextSwap ==
    \/ CtorSteps(SwapConfigs)
    \/ ConfigSteps({1}, SwapConfigs)
    \/ \E m \in {"info", "error"} : LogRead(2, "A", m)
    \/ \E outcome \in {"old", "dropped", "crash"} : LogThrough(2, outcome, 0)
    \/ Enqueue(2)
    \/ WorkerStep(0)

SpecSwap == Init /\ [][NextSwap]_vars

\* SpecOwn: two Loggers constructed and destroyed, sync and async, one of
\* them reconfigured, also with a file-sink block that may fail.
OwnConfigs == {Cfg(TRUE, "none", INFO, a, BigFile, 1, 1) : a \in BOOLEAN}
ReOwnConfigs ==
    {Cfg(TRUE, "none", INFO, TRUE, BigFile, 1, 1), Cfg(TRUE, "dir", INFO, FALSE, BigFile, 1, 1)}

NextOwn ==
    \/ CtorStepsOn(Loggers, OwnConfigs)
    \/ \E cfg \in ReOwnConfigs : \E env \in EnvsOf(cfg) : SetConfig(1, "A", cfg, env)
    \/ \E l \in Loggers : Destroy(1, l)
    \/ FlushReturn(1)
    \/ Enqueue(1)
    \/ WorkerStep(0)

SpecOwn == Init /\ [][NextOwn]_vars

\* SpecProbe: a log file in a directory, with the directory missing or
\* there and every way the directory, the probe and the sink can fail.
ProbeConfigs == {Cfg(c, "dir", INFO, ~c, BigFile, 1, 1) : c \in BOOLEAN}

ProbeEnvs(cfg) == EnvsOf(cfg) \cup {"dirExists", "removeThrows"}

NextProbe ==
    \/ \E cfg \in ProbeConfigs : \E env \in ProbeEnvs(cfg) : Construct("A", cfg, env)
    \/ \E cfg \in ProbeConfigs : \E env \in ProbeEnvs(cfg) : SetConfig(1, "A", cfg, env)
    \/ LogSteps({1}, {"info"}, {0})

SpecProbe == Init /\ [][NextProbe]_vars

\* SpecLive: async dispatch under fair scheduling.  The worker thread and a
\* returning flush() always get to run; a producer waiting on the queue's
\* condition variable is woken at every dequeue, so it gets in if there is
\* room again and again (strong fairness).  Two producers, flush(),
\* queueSize 0, 1 and 2.
LiveConfigs == {Cfg(TRUE, "none", INFO, TRUE, BigFile, 1, q) : q \in {0, 1, 2}}

NextLive ==
    \/ CtorSteps(LiveConfigs)
    \/ LogSteps(Threads, {"info"}, {0})
    \/ FlushSteps({1})

Fairness ==
    /\ WF_vars(WorkerStep(0))
    /\ \A t \in Threads : SF_vars(Enqueue(t))
    /\ WF_vars(FlushReturn(1))

SpecLive == Init /\ [][NextLive]_vars /\ Fairness

\* SpecRaw: pipelines built from raw configurations, among them queueSize
\* 0, maxFiles 0 and a LogLevel outside the enumeration (7).
RawConfigs ==
    {Cfg(TRUE, p, lv, a, 1, mf, q) :
        p \in {"none", "bare"}, lv \in {INFO, 7}, a \in BOOLEAN, mf \in {0, 1}, q \in {0, 1}}

NextRaw ==
    \/ CtorSteps(RawConfigs)
    \/ LogSteps({1}, {"info"}, {0})

SpecRaw == Init /\ [][NextRaw]_vars

(***************************************************************************)
(* Helpers for the properties.                                             *)
(***************************************************************************)
\* The Logger::LogLevel severity of each log method
Severity(method) ==
    CASE method = "trace"   -> TRACE
      [] method = "debug"   -> DEBUG
      [] method = "info"    -> INFO
      [] method = "warning" -> WARNING
      [] method = "error"   -> ERROR
      [] method = "fatal"   -> FATAL

Range(seq) == {seq[i] : i \in 1..Len(seq)}

\* The last setupLogger run of a Logger
LastSetup(l) == lastSetup[l][Len(lastSetup[l])]

\* What the sink of the given kind of a pipeline has been handed
SinkOut(pipe, kind) == IF kind = "console" THEN pipe.conOut ELSE pipe.fileIn

SinkKinds(pipe) == {pipe.sinks[i].kind : i \in 1..Len(pipe.sinks)}

\* The record is in the queue or in the hands of a thread posting it
InFlight(p, rec) ==
    \/ \E i \in 1..Len(queue) : queue[i] = Msg("log", p, rec)
    \/ \E t \in Threads : pend[t] = Msg("log", p, rec)

(***************************************************************************)
(* C1.  After construction or setConfig with any configuration, the        *)
(* Logger's active pipeline has at least one sink.                         *)
(***************************************************************************)
C1_PipelineHasSink ==
    \A l \in Loggers :
        alive[l] = "live" => /\ m_logger[l] # NULL
                             /\ Len(pipes[m_logger[l]].sinks) >= 1

(***************************************************************************)
(* C2.  A Logger constructed with consoleOutput = false and a log          *)
(* directory that fails the write probe has a non-null logger handle whose *)
(* sink set is exactly one console sink.                                   *)
(***************************************************************************)
C2_ProbeFailureGivesConsoleOnly ==
    \A l \in Loggers :
        (/\ alive[l] = "live"
         /\ Len(lastSetup[l]) = 1
         /\ LastSetup(l).env = "probeFails"
         /\ ~LastSetup(l).cfg.console)
        => /\ m_logger[l] # NULL
           /\ pipes[m_logger[l]].sinks = <<ConsoleSink(LastSetup(l).cfg)>>

(***************************************************************************)
(* C3.  When creating the log directory or constructing the rotating file  *)
(* sink throws, setupLogger still completes and installs a pipeline built  *)
(* by that very call whose sinks are exactly one console sink (the one     *)
(* requested, or the forced one when none was requested).                  *)
(***************************************************************************)
C3_SinkFailureDegradesToConsole ==
    \A l \in Loggers :
        (/\ alive[l] = "live"
         /\ LastSetup(l).env \in {"mkdirThrows", "sinkThrows"})
        => /\ ~LastSetup(l).ret
           /\ LastSetup(l).pipe # NULL
           /\ m_logger[l] = LastSetup(l).pipe
           /\ pipes[m_logger[l]].sinks = <<ConsoleSink(LastSetup(l).cfg)>>

\* A setConfig whose file sink constructor threw, with no console requested,
\* after which a record was written to the forced console sink.
C3_Witness ==
    \E l \in Loggers :
        /\ alive[l] = "live"
        /\ Len(lastSetup[l]) = 2
        /\ LastSetup(l).env = "sinkThrows"
        /\ ~LastSetup(l).cfg.console
        /\ m_logger[l] # NULL
        /\ pipes[m_logger[l]].conOut # <<>>

(***************************************************************************)
(* C4.  For a pipeline built with minimum level L on which setLogLevel was *)
(* not called, a log call of severity s reaches each sink exactly when     *)
(* s >= L: a call at or above L is in every sink of the pipeline (at once  *)
(* in sync mode; in async mode it may still be on its way through the      *)
(* queue), a call below L is in no sink and not in the queue.              *)
(***************************************************************************)
Delivered(p, kind, rec) == rec \in Range(SinkOut(pipes[p], kind))

C4_LevelFilter ==
    \A c \in calls :
        ~c.ls =>
            LET p == c.pipe
                L == pipes[p].cfg.minLevel
            IN  IF Severity(c.rec.m) >= L
                THEN \A k \in SinkKinds(pipes[p]) :
                        \/ Delivered(p, k, c.rec)
                        \/ pipes[p].async /\ InFlight(p, c.rec)
                ELSE /\ \A k \in SinkKinds(pipes[p]) : ~Delivered(p, k, c.rec)
                     /\ ~InFlight(p, c.rec)

\* An async pipeline with a console and a file sink has taken a call at or
\* above its level into both sinks and ignored a call below it.
C4_Witness ==
    \E c1 \in calls, c2 \in calls :
        /\ c1.pipe = c2.pipe
        /\ ~c1.ls /\ ~c2.ls
        /\ pipes[c1.pipe].async
        /\ SinkKinds(pipes[c1.pipe]) = {"console", "file"}
        /\ Severity(c1.rec.m) >= pipes[c1.pipe].cfg.minLevel
        /\ Delivered(c1.pipe, "console", c1.rec) /\ Delivered(c1.pipe, "file", c1.rec)
        /\ Severity(c2.rec.m) < pipes[c1.pipe].cfg.minLevel

(***************************************************************************)
(* C5.  After setLogLevel(L) on a Logger with a pipeline, every later call *)
(* of severity >= L reaches every sink (or is on its way there) and every  *)
(* later call of severity < L reaches none, whether L is above or below    *)
(* the level the pipeline was built with.                                  *)
(***************************************************************************)
C5_SetLogLevelGovernsOutput ==
    \A c \in calls :
        c.ls =>
            LET p == c.pipe
            IN  IF Severity(c.rec.m) >= c.lv
                THEN \A k \in SinkKinds(pipes[p]) :
                        \/ Delivered(p, k, c.rec)
                        \/ pipes[p].async /\ InFlight(p, c.rec)
                ELSE /\ \A k \in SinkKinds(pipes[p]) : ~Delivered(p, k, c.rec)
                     /\ ~InFlight(p, c.rec)

(***************************************************************************)
(* C6.  In async mode, when flush() returns, every record of that Logger   *)
(* that was enqueued before the flush call began has left the queue and    *)
(* been handed to the sinks.                                               *)
(***************************************************************************)
C6_FlushReturnsAfterDrain ==
    \A t \in Threads :
        (/\ pc[t] = "flushed"
         /\ flushPipe[t] # NULL
         /\ pipes[flushPipe[t]].async)
        => \A i \in 1..flushMark[t] :
              enqueued[i].pipe = flushPipe[t] => enqueued[i] \in Range(dequeued)

(***************************************************************************)
(* C8.  In async mode, two records submitted by the same thread through    *)
(* one pipeline are written to each of its sinks in the order they were    *)
(* submitted, whatever the other producers and the worker do.              *)
(***************************************************************************)
InSubmissionOrder(out) ==
    \A i \in 1..Len(out), j \in 1..Len(out) :
        (i < j /\ out[i].t = out[j].t) => out[i].n < out[j].n

C8_PerThreadFifo ==
    \A p \in 1..Len(pipes) :
        pipes[p].async =>
            /\ InSubmissionOrder(pipes[p].conOut)
            /\ InSubmissionOrder(pipes[p].fileIn)

\* An async console sink holds both records of one thread with a record of
\* the other thread written between them.
C8_Witness ==
    \E p \in 1..Len(pipes) :
        /\ pipes[p].async
        /\ Len(pipes[p].conOut) >= 3
        /\ \E i \in 1..Len(pipes[p].conOut) - 2 :
              /\ pipes[p].conOut[i].t = pipes[p].conOut[i + 2].t
              /\ pipes[p].conOut[i].t # pipes[p].conOut[i + 1].t

(***************************************************************************)
(* C9.  In async mode the records written to a sink are, in order, the     *)
(* records of that pipeline in the order their enqueue succeeded: the      *)
(* queue reorders nothing, whatever the severities.                        *)
(***************************************************************************)
\* The records of pipeline p that the sink of the given level admits, in the
\* order of successful enqueue
EnqueuedFor(p, level) ==
    LET Mine(m) == m.pipe = p /\ m.rec.lvl >= level
        sel     == SelectSeq(enqueued, Mine)
    IN  [i \in 1..Len(sel) |-> sel[i].rec]

IsPrefix(a, b) == Len(a) <= Len(b) /\ \A i \in 1..Len(a) : a[i] = b[i]

C9_EnqueueOrder ==
    \A p \in 1..Len(pipes) :
        pipes[p].async =>
            \A i \in 1..Len(pipes[p].sinks) :
                IsPrefix(SinkOut(pipes[p], pipes[p].sinks[i].kind),
                         EnqueuedFor(p, pipes[p].sinks[i].level))

\* The worker has written records of both threads and of both severities
\* to an async console sink while a third record still waits in the queue.
C9_Witness ==
    \E p \in 1..Len(pipes) :
        /\ pipes[p].async
        /\ \E i \in 1..Len(pipes[p].conOut), j \in 1..Len(pipes[p].conOut) :
              /\ pipes[p].conOut[i].t # pipes[p].conOut[j].t
              /\ pipes[p].conOut[i].lvl # pipes[p].conOut[j].lvl
        /\ \E k \in 1..Len(queue) : queue[k].kind = "log" /\ queue[k].pipe = p

(***************************************************************************)
(* C10.  A full queue makes the posting thread wait; saturation never      *)
(* drops or overwrites a record: the queue never holds more than its       *)
(* capacity, the log messages enqueued so far are exactly those the worker *)
(* has taken followed by those still queued, and every call an async       *)
(* pipeline accepted is either still being posted by its thread or was     *)
(* enqueued.                                                               *)
(***************************************************************************)
IsLog(m) == m.kind = "log"

C10_BlockNeverDrops ==
    /\ Len(queue) <= poolCap
    /\ enqueued = dequeued \o SelectSeq(queue, IsLog)
    /\ \A c \in calls :
          (pipes[c.pipe].async /\ Severity(c.rec.m) >= c.lv)
          => \/ pend[c.rec.t] = Msg("log", c.pipe, c.rec)
             \/ Msg("log", c.pipe, c.rec) \in Range(enqueued)

\* A thread waits with its record on a full queue after more records than
\* the queue holds have already been enqueued.
C10_Witness ==
    \E t \in Threads :
        /\ pc[t] = "enq"
        /\ pend[t].kind = "log"
        /\ poolInit
        /\ Len(queue) = poolCap
        /\ Len(enqueued) > poolCap

(***************************************************************************)
(* C7.  N producer threads each emit M accepted records through one Logger *)
(* with a rotating file sink and the Logger is then flushed: exactly N x M *)
(* records are present across the active file plus all backup files, for   *)
(* every maxFileSize and maxFiles.                                         *)
(***************************************************************************)
\* The records on disk: the backups from the oldest to the newest, then the
\* active file
RECURSIVE DiskFrom(_, _)
DiskFrom(chain, i) ==
    IF i < 0 THEN <<>>
    ELSE (IF chain[i].exists THEN chain[i].recs ELSE <<>>) \o DiskFrom(chain, i - 1)

DiskRecs(pipe) == DiskFrom(pipe.chain, pipe.maxFiles + 1)

NoDuplicates(seq) == Cardinality(Range(seq)) = Len(seq)

AllEmitted == Cardinality(Threads) * MaxMsgs

\* Every producer has made all its calls through the file pipeline p and
\* thread 1 then called flush(), which has returned.
EmittedAndFlushed(p) ==
    /\ p # NULL
    /\ "file" \in SinkKinds(pipes[p])
    /\ \A t \in Threads : sent[t] = MaxMsgs /\ pc[t] # "enq"
    /\ pc[1] = "flushed"
    /\ flushPipe[1] = p
    /\ pipes[p].async => flushMark[1] = AllEmitted

FlushProcessed(p) == \A i \in 1..Len(queue) : queue[i] # Msg("flush", p, NoRec(1))

Waiting(p) == {i \in 1..Len(queue) : queue[i].kind = "log" /\ queue[i].pipe = p}

C11_QueueWithinOwnCapacity ==
    \A p \in 1..Len(pipes) :
        pipes[p].async => Cardinality(Waiting(p)) <= pipes[p].cfg.queueSize

(***************************************************************************)
(* C12.  After any number of appends and rotations on a rotating file sink *)
(* with retention R = maxFiles, the active file exists and at most R       *)
(* backup files exist on disk.                                             *)
(***************************************************************************)
\* The backup files of a pipeline's file sink that exist on disk
Backups(pipe) == {i \in DOMAIN pipe.chain \ {0} : pipe.chain[i].exists}

C12_RetentionBound ==
    \A p \in 1..Len(pipes) :
        "file" \in SinkKinds(pipes[p]) =>
            /\ pipes[p].chain[0].exists
            /\ Cardinality(Backups(pipes[p])) <= pipes[p].maxFiles

\* A sink has rotated more often than it keeps backups: its oldest backup
\* was dropped and exactly maxFiles backups remain.
C12_Witness ==
    \E p \in 1..Len(pipes) :
        /\ "file" \in SinkKinds(pipes[p])
        /\ pipes[p].maxFiles >= 1
        /\ ~pipes[p].rotFailed
        /\ pipes[p].rotations > pipes[p].maxFiles
        /\ Cardinality(Backups(pipes[p])) = pipes[p].maxFiles

(***************************************************************************)
(* C13.  In every state in which no rotation step of a file sink has       *)
(* failed, its active file exceeds maxFileSize by at most the size of one  *)
(* record (the last one written), and the sink's size counter is the size  *)
(* of the file: the size check sees whole writes only.                     *)
(***************************************************************************)
RECURSIVE SizeOf(_)
SizeOf(recs) == IF recs = <<>> THEN 0 ELSE RecordSize(Head(recs)) + SizeOf(Tail(recs))

ActiveRecs(pipe) == pipe.chain[0].recs

C13_ActiveFileOverrun ==
    \A p \in 1..Len(pipes) :
        ("file" \in SinkKinds(pipes[p]) /\ ~pipes[p].rotFailed) =>
            LET a == ActiveRecs(pipes[p])
            IN  /\ pipes[p].curSize = SizeOf(a)
                /\ a # <<>> => SizeOf(a) <= pipes[p].maxSize + RecordSize(a[Len(a)])

\* After a rotation, with no failure, the active file is larger than
\* maxFileSize: it holds one record that is larger than the limit.
C13_Witness ==
    \E p \in 1..Len(pipes) :
        /\ "file" \in SinkKinds(pipes[p])
        /\ ~pipes[p].rotFailed
        /\ pipes[p].rotations >= 2
        /\ SizeOf(ActiveRecs(pipes[p])) > pipes[p].maxSize

(***************************************************************************)
(* C14.  With maxFileSize 100 and maxFiles 2, writing 50 records of 10     *)
(* bytes each to an initially empty log produces 5 rotation events and     *)
(* leaves exactly 2 backup files plus the active file.                     *)
(***************************************************************************)
\* The file sink of pipeline p has limit 100 and two backups and has been
\* handed k records, all of 10 bytes
Filled(p, k) ==
    /\ "file" \in SinkKinds(pipes[p])
    /\ pipes[p].maxSize = 100
    /\ pipes[p].maxFiles = 2
    /\ Len(pipes[p].fileIn) = k
    /\ \A i \in 1..k : RecordSize(pipes[p].fileIn[i]) = 10

C14_FiveRotations ==
    \A p \in 1..Len(pipes) :
        Filled(p, 50) =>
            /\ pipes[p].rotations = 5
            /\ pipes[p].chain[0].exists
            /\ Cardinality(Backups(pipes[p])) = 2

\* C14 as amended: the k-th record rotates exactly when the ten records
\* before it have filled the active file, so k >= 1 records cause
\* (k - 1) \div 10 rotations; 50 records cause 4, leaving the active file
\* with the last ten records and 2 backup files.
Min(a, b) == IF a < b THEN a ELSE b

C14_FourRotations ==
    \A p \in 1..Len(pipes) :
        /\ \A k \in 1..(FillMsgs + 1) :
              Filled(p, k) =>
                  /\ pipes[p].rotations = (k - 1) \div 10
                  /\ Cardinality(Backups(pipes[p])) = Min((k - 1) \div 10, 2)
        /\ Filled(p, 50) =>
              /\ pipes[p].rotations = 4
              /\ pipes[p].chain[0].exists
              /\ Len(ActiveRecs(pipes[p])) = 10
              /\ Cardinality(Backups(pipes[p])) = 2

\* An async pipeline has written all 50 records and rotated four times.
C14_Witness ==
    \E p \in 1..Len(pipes) :
        /\ pipes[p].async
        /\ Filled(p, 50)
        /\ pipes[p].rotations = 4

(***************************************************************************)
(* C15.  If a rename step of a rotation fails, the record being appended   *)
(* is not lost: it is appended to the current active file.  Together with  *)
(* the appends whose rotation succeeds or is not needed: the record last   *)
(* handed to a file sink is the last record of its active file.            *)
(***************************************************************************)
C15_FailedRotationKeepsRecord ==
    \A p \in 1..Len(pipes) :
        ("file" \in SinkKinds(pipes[p]) /\ pipes[p].fileIn # <<>>) =>
            LET a  == ActiveRecs(pipes[p])
                in == pipes[p].fileIn
            IN  a # <<>> /\ a[Len(a)] = in[Len(in)]

(***************************************************************************)
(* C16.  All append and rotate operations on one rotating file sink are    *)
(* serialized: at no time are two threads inside its log(), and whenever   *)
(* no thread is inside, its files, size counter and rotation count are     *)
(* those of appending its records one after the other, so each overflow    *)
(* rotates exactly once.                                                   *)
(***************************************************************************)
\* The file sink of a pipeline after it has taken the records one by one
RECURSIVE Replay(_, _)
Replay(pipe, recs) ==
    IF recs = <<>> THEN pipe
    ELSE Replay(FileSinkIt(pipe, Head(recs), 0), Tail(recs))

Fresh(pipe) == [NewPipe(pipe.cfg, pipe.env, pipe.sinks) EXCEPT !.pool = pipe.pool]

C16_SinkSerialized ==
    \A p \in 1..Len(pipes) :
        "file" \in SinkKinds(pipes[p]) =>
            /\ Cardinality(InSink(p)) <= 1
            /\ InSink(p) = {} =>
                  LET seq == Replay(Fresh(pipes[p]), pipes[p].fileIn)
                  IN  /\ pipes[p].chain = seq.chain
                      /\ pipes[p].curSize = seq.curSize
                      /\ pipes[p].rotations = seq.rotations

\* One thread is rotating while the other, whose record would overflow the
\* same file, waits for the mutex.
C16_Witness ==
    \E p \in 1..Len(pipes) :
        /\ pc[1] = "rotate" /\ pend[1].pipe = p
        /\ pc[2] = "lock" /\ pend[2].pipe = p

(***************************************************************************)
(* C17.  A call of any of the six log methods on a Logger without a        *)
(* pipeline (null logger handle) returns to its caller having changed no   *)
(* Logger state and written nothing: nothing but the count of calls made   *)
(* changes in the step.                                                    *)
(***************************************************************************)
\* The step is a log call of some thread
IsLogCall == \E t \in Threads : sent'[t] = sent[t] + 1

Replaces(l) == m_logger[l] # NULL /\ m_logger'[l] # m_logger[l] /\ alive'[l] = "live"

C18_SetConfigDrainsFirst ==
    [][\A l \in Loggers :
          Replaces(l) =>
              \A i \in 1..Len(enqueued) :
                  enqueued[i].pipe = m_logger[l] =>
                      /\ enqueued[i] \in Range(dequeued)
                      /\ \A k \in SinkKinds(pipes[m_logger[l]]) :
                            Delivered(m_logger[l], k, enqueued[i].rec)]_vars

(***************************************************************************)
(* C19.  After setConfig(c) has returned, every later log call goes to the *)
(* pipeline that setConfig built from c (its level and its sinks are those *)
(* of c) and to no pipeline of an earlier configuration, whatever c is and *)
(* whether or not its file path is usable.                                 *)
(***************************************************************************)
C19_SetConfigTakesEffect ==
    [][\A l \in Loggers :
          (IsLogCall /\ alive[l] = "live" /\ Len(lastSetup[l]) >= 2) =>
              \A e \in calls' \ calls :
                  /\ e.pipe = LastSetup(l).pipe
                  /\ pipes[e.pipe].cfg = LastSetup(l).cfg]_vars

(***************************************************************************)
(* C20.  On setConfig and on destruction the Logger flushes, stops the     *)
(* worker and only then lets go of the sinks: no record is written to a    *)
(* sink of a pipeline that its Logger has let go of (replaced by setConfig *)
(* or given up in the destructor).                                         *)
(***************************************************************************)
\* Some live Logger holds pipeline p
Held(p) == \E l \in Loggers : alive[l] = "live" /\ m_logger[l] = p

\* The step writes a record to a sink of pipeline p
Written(p) ==
    \/ pipes'[p].conOut # pipes[p].conOut
    \/ pipes'[p].fileIn # pipes[p].fileIn

C20_NoWriteAfterRelease ==
    [][\A p \in 1..Len(pipes) : Written(p) => Held(p)]_vars

(***************************************************************************)
(* C21.  If an async Logger is destroyed while records are still queued,   *)
(* every record enqueued before the destruction began has been written to  *)
(* its sinks when the destructor's flush() has returned and the Logger     *)
(* lets go of the pipeline.                                                *)
(***************************************************************************)
\* Pipeline p was built by a setupLogger run of Logger l
BuiltBy(l, p) == \E k \in 1..Len(lastSetup[l]) : lastSetup[l][k].pipe = p

\* Thread t is in ~Logger of the Logger that held the async pipeline p, and
\* the flush() of the destructor has returned
DestructorFlushed(t, p) ==
    /\ pc[t] = "flushed"
    /\ flushPipe[t] = p
    /\ p # NULL
    /\ pipes[p].async
    /\ \E l \in Loggers : alive[l] = "dead" /\ BuiltBy(l, p)

C21_DestroyDeliversQueued ==
    \A t \in Threads :
        DestructorFlushed(t, flushPipe[t]) =>
            \A i \in 1..flushMark[t] :
                enqueued[i].pipe = flushPipe[t] =>
                    /\ enqueued[i] \in Range(dequeued)
                    /\ \A k \in SinkKinds(pipes[flushPipe[t]]) :
                          Delivered(flushPipe[t], k, enqueued[i].rec)

(***************************************************************************)
(* C22.  Building a pipeline from any raw configuration replaces           *)
(* out-of-range values by safe defaults: the values a built pipeline uses  *)
(* satisfy queue capacity > 0, retained files >= 1 and a level inside the  *)
(* fixed set.                                                              *)
(***************************************************************************)
SpdLevels == {spd_trace, spd_debug, spd_info, spd_warn, spd_err, spd_critical}

C22_BuildNormalizesConfig ==
    \A p \in 1..Len(pipes) :
        /\ pipes[p].level \in SpdLevels
        /\ \A i \in 1..Len(pipes[p].sinks) : pipes[p].sinks[i].level \in SpdLevels
        /\ "file" \in SinkKinds(pipes[p]) => pipes[p].maxFiles >= 1
        /\ pipes[p].async => poolCap > 0

(***************************************************************************)
(* C23.  The process-wide worker pool is created at most once, however the *)
(* async Loggers are constructed (in sequence, from several threads at     *)
(* once, or rebuilt by setConfig); sync Loggers never create it.           *)
(***************************************************************************)
C23_PoolCreatedOnce == pools <= 1

\* The messages of pipeline p waiting in the queue
QueuedOf(p) == {i \in 1..Len(queue) : queue[i].pipe = p}

(***************************************************************************)
(* C24.  Each async Logger has a queue of its own, so a producer waits     *)
(* only on its own Logger's full queue: while a producer is kept waiting,  *)
(* the messages queued for the Logger it logs through fill that Logger's   *)
(* queueSize, whatever other Loggers have queued.                          *)
(***************************************************************************)
C24_BlockedOnlyByOwnQueue ==
    \A t \in Threads :
        pc[t] = "enq" /\ ~CanEnqueue(queue, poolCap) =>
            Cardinality(QueuedOf(pend[t].pipe)) >= pipes[pend[t].pipe].cfg.queueSize

(***************************************************************************)
(* C25.  A Logger's lifecycle: it is constructed once (Uninitialized to    *)
(* Running), setConfig takes it from Running through Draining back to      *)
(* Running, destruction takes it from Running through Draining to Stopped; *)
(* Stopped is terminal and nothing changes the Logger after it.  Draining  *)
(* is over when no record enqueued through the old pipeline is still in    *)
(* the queue.                                                              *)
(***************************************************************************)
LifecycleSteps ==
    {<<"none", "none">>, <<"none", "live">>, <<"live", "live">>, <<"live", "dead">>,
     <<"dead", "dead">>}

C25_Lifecycle ==
    [][\A l \in Loggers :
          /\ <<alive[l], alive'[l]>> \in LifecycleSteps
          /\ alive[l] = "dead" =>
                 /\ m_logger'[l] = m_logger[l]
                 /\ m_config'[l] = m_config[l]
                 /\ lastSetup'[l] = lastSetup[l]
          /\ Replaces(l) => Waiting(m_logger[l]) = {}
          /\ \A t \in Threads :
                 BuiltBy(l, flushPipe[t]) /\ DestructorFlushed(t, flushPipe[t]) =>
                     Waiting(flushPipe[t]) = {}]_vars

\* The records of the active file that are in the file, not in the buffer
OnDisk(pipe) ==
    SubSeq(pipe.chain[0].recs, 1, Len(pipe.chain[0].recs) - pipe.unflushed)

\* The step is a flush() call of thread t on Logger l in synchronous mode
SyncFlushStep(t, l) ==
    /\ alive[l] = "live" /\ alive'[l] = "live"
    /\ pc[t] = "idle" /\ pc'[t] = "flushed"
    /\ m_logger[l] # NULL
    /\ flushPipe'[t] = m_logger[l]
    /\ ~pipes[m_logger[l]].async

(***************************************************************************)
(* C26 as stated.  In synchronous mode a flush() call changes no sink      *)
(* content: the console output and the content of the log file are the     *)
(* same after it as before.                                                *)
(***************************************************************************)
C26_SyncFlushNoOp ==
    [][\A t \in Threads, l \in Loggers :
          SyncFlushStep(t, l) =>
              /\ pipes'[m_logger[l]].conOut = pipes[m_logger[l]].conOut
              /\ OnDisk(pipes'[m_logger[l]]) = OnDisk(pipes[m_logger[l]])]_vars

(***************************************************************************)
(* C26.  In synchronous mode a record accepted by the filter is handed to  *)
(* every sink that admits it on the calling thread before the log call     *)
(* returns; the file sink buffers it, and a flush() call in sync mode      *)
(* changes no console output and no record sequence but writes the         *)
(* buffered records to the file.                                           *)
(***************************************************************************)
C26_SyncFlushWritesBuffer ==
    [][/\ \A c \in calls' \ calls :
              ~pipes[c.pipe].async /\ should_log(c.rec.lvl, pipes[c.pipe].level) =>
                  /\ Admits(pipes[c.pipe], "console", c.rec) =>
                         c.rec \in Range(pipes'[c.pipe].conOut)
                  /\ Admits(pipes[c.pipe], "file", c.rec) =>
                         c.rec \in Range(pipes'[c.pipe].fileIn)
       /\ \A t \in Threads, l \in Loggers :
              SyncFlushStep(t, l) =>
                  /\ pipes'[m_logger[l]].conOut = pipes[m_logger[l]].conOut
                  /\ pipes'[m_logger[l]].fileIn = pipes[m_logger[l]].fileIn
                  /\ pipes'[m_logger[l]].chain = pipes[m_logger[l]].chain
                  /\ OnDisk(pipes'[m_logger[l]]) = pipes[m_logger[l]].chain[0].recs]_vars

\* A sync flush() has returned on a pipeline whose active file holds only
\* records below the flush_on level, all of them now in the file.
C26_Witness ==
    /\ pc[1] = "flushed"
    /\ flushPipe[1] # NULL
    /\ ~pipes[flushPipe[1]].async
    /\ pipes[flushPipe[1]].chain[0].recs # <<>>
    /\ \A i \in 1..Len(pipes[flushPipe[1]].chain[0].recs) :
           pipes[flushPipe[1]].chain[0].recs[i].lvl < spd_err
    /\ OnDisk(pipes[flushPipe[1]]) = pipes[flushPipe[1]].chain[0].recs

(***************************************************************************)
(* C27.  Each time a requested file sink cannot be used (the directory     *)
(* probe fails, directory creation throws or the file-sink constructor     *)
(* throws), exactly one diagnostic is emitted and the Logger goes on       *)
(* logging through a console sink.                                         *)
(***************************************************************************)
\* A setupLogger run that was asked for a file sink and built none
FileSinkUnusable(s) ==
    /\ s.cfg.path # "none"
    /\ s.pipe # NULL => ~HasKind(pipes[s.pipe].sinks, "file")

C27_OneDiagnosticThenConsole ==
    \A l \in Loggers :
        \A k \in 1..Len(lastSetup[l]) :
            FileSinkUnusable(lastSetup[l][k]) =>
                /\ lastSetup[l][k].diag = 1
                /\ lastSetup[l][k].pipe # NULL
                /\ HasKind(pipes[lastSetup[l][k].pipe].sinks, "console")

\* How often rec occurs in seq
Times(rec, seq) == Cardinality({i \in 1..Len(seq) : seq[i] = rec})

\* The records whose pass through the sinks of pipeline p the step performs:
\* a synchronous log call that the logger's level admits, or the worker
\* taking a log message from the queue
Traversed(p) ==
    {c.rec : c \in {d \in calls' \ calls :
                       /\ d.pipe = p
                       /\ ~pipes[p].async
                       /\ should_log(d.rec.lvl, pipes[p].level)}}
    \cup {dequeued'[i].rec : i \in {j \in (Len(dequeued) + 1)..Len(dequeued') :
                                       dequeued'[j].pipe = p}}

(***************************************************************************)
(* C28.  Every record accepted by the filter is consumed exactly once, in  *)
(* sync and in async mode: the one pass through the sinks puts it once     *)
(* into the output of each sink that admits its severity (the console      *)
(* output, the active log file), where it was not before, never zero times *)
(* and never twice.                                                        *)
(***************************************************************************)
C28_ConsumedExactlyOnce ==
    [][\A p \in 1..Len(pipes) :
          \A rec \in Traversed(p) :
              /\ Admits(pipes[p], "console", rec) =>
                     /\ Times(rec, pipes[p].conOut) = 0
                     /\ Times(rec, pipes'[p].conOut) = 1
              /\ Admits(pipes[p], "file", rec) =>
                     /\ Times(rec, DiskRecs(pipes[p])) = 0
                     /\ Times(rec, pipes'[p].chain[0].recs) = 1
                     /\ Times(rec, DiskRecs(pipes'[p])) = 1]_vars

(***************************************************************************)
(* C29.  Every pipeline build creates fresh sink objects: across any       *)
(* constructions and setConfig calls on the Loggers, no two Loggers hold   *)
(* the same logger and sinks, a build hands its Logger objects that did    *)
(* not exist before, the sinks of a built pipeline are never changed, and  *)
(* a Logger lets go of its sinks only in its own setConfig or destruction. *)
(***************************************************************************)
C29_SinksOwnedByOneLogger ==
    [][/\ \A l1, l2 \in Loggers :
              l1 # l2 /\ m_logger'[l1] # NULL => m_logger'[l1] # m_logger'[l2]
       /\ \A p \in 1..Len(pipes) : pipes'[p].sinks = pipes[p].sinks
       /\ \A l \in Loggers :
              m_logger'[l] # m_logger[l] =>
                  \/ m_logger'[l] = NULL /\ alive[l] = "live" /\ alive'[l] = "dead"
                  \/ /\ m_logger'[l] \in (Len(pipes) + 1)..Len(pipes')
                     /\ Len(lastSetup'[l]) = Len(lastSetup[l]) + 1
                     /\ lastSetup'[l][Len(lastSetup'[l])].pipe = m_logger'[l]
                     /\ \A l2 \in Loggers \ {l} : ~BuiltBy(l2, m_logger'[l])]_vars

\* Logger A has been reconfigured, so it has let go of its first sinks for
\* new ones, and Logger B, built in between or after, has been destroyed.
C29_Witness ==
    /\ alive["A"] = "live"
    /\ Len(lastSetup["A"]) = 2
    /\ lastSetup["A"][1].pipe # NULL
    /\ lastSetup["A"][2].pipe = m_logger["A"]
    /\ lastSetup["A"][1].pipe # m_logger["A"]
    /\ alive["B"] = "dead"
    /\ \E p \in 1..Len(pipes) : BuiltBy("B", p)

\* A setupLogger run that built the file sink
FileSinkBuilt(s) == s.pipe # NULL /\ HasKind(pipes[s.pipe].sinks, "file")

(***************************************************************************)
(* C30.  For a file path with a parent directory: after a successful build *)
(* the directory (created if it was missing) and the log file exist and no *)
(* marker file is left behind; a failed probe raises nothing: setupLogger  *)
(* returns and the Logger is constructed, with no log file opened.         *)
(***************************************************************************)
C30_ProbeLeavesNoMarker ==
    \A l \in Loggers :
        \A k \in 1..Len(lastSetup[l]) :
            lastSetup[l][k].cfg.path = "dir" =>
                /\ FileSinkBuilt(lastSetup[l][k]) =>
                       /\ lastSetup[l][k].fs.dir
                       /\ lastSetup[l][k].fs.log
                       /\ ~lastSetup[l][k].fs.marker
                /\ lastSetup[l][k].env \in {"probeFails", "removeThrows"} =>
                       /\ lastSetup[l][k].ret
                       /\ alive[l] \in {"live", "dead"}
                       /\ ~lastSetup[l][k].fs.log

\* A build that found the directory missing has succeeded, and a later
\* setConfig on the same Logger had its probe fail.
C30_Witness ==
    /\ Len(lastSetup["A"]) = 2
    /\ lastSetup["A"][1].cfg.path = "dir"
    /\ lastSetup["A"][1].env = "ok"
    /\ ~FsBefore(lastSetup["A"][1].cfg, lastSetup["A"][1].env).dir
    /\ FileSinkBuilt(lastSetup["A"][1])
    /\ lastSetup["A"][2].env = "probeFails"

(***************************************************************************)
(* C31.  Under fair scheduling of the worker, every producer blocked on a  *)
(* full queue is eventually enqueued and every flush() call eventually     *)
(* returns: a thread inside a log or flush call is eventually out of it.   *)
(***************************************************************************)
C31_CallsTerminate ==
    \A t \in Threads : (pc[t] # "idle") ~> (pc[t] = "idle")

\* The step is a successful rotation of the file sink of pipeline p
Rotated(p) == pipes'[p].rotations = pipes[p].rotations + 1

(***************************************************************************)
(* C32.  A successful rotation shifts the chain from the oldest backup     *)
(* downwards: every file k below maxFiles that exists (k = 0 is the active *)
(* file) becomes backup k + 1 with its content, nothing is left beyond     *)
(* maxFiles, and the new active file starts empty with the size counter at *)
(* 0: after the write that triggered the rotation it holds that record     *)
(* alone and the counter is that record's size.                            *)
(***************************************************************************)
C32_RotationShiftsChain ==
    [][\A p \in 1..Len(pipes) :
          Rotated(p) =>
              /\ \A k \in 0..(pipes[p].maxFiles - 1) :
                     pipes[p].chain[k].exists =>
                         pipes'[p].chain[k + 1] = File(TRUE, pipes[p].chain[k].recs)
              /\ ~pipes'[p].chain[pipes[p].maxFiles + 1].exists
              /\ pipes'[p].chain[0].exists
              /\ \/ /\ pipes'[p].chain[0].recs = <<>>
                    /\ pipes'[p].curSize = 0
                 \/ /\ pipes'[p].chain[0].recs =
                           <<pipes'[p].fileIn[Len(pipes'[p].fileIn)]>>
                    /\ pipes'[p].curSize =
                           RecordSize(pipes'[p].fileIn[Len(pipes'[p].fileIn)])]_vars

\* A sink keeping two backups has rotated twice without a failure: the
\* first active file is now backup 2 and the second is backup 1.
C32_Witness ==
    \E p \in 1..Len(pipes) :
        /\ pipes[p].maxFiles = 2
        /\ ~pipes[p].rotFailed
        /\ pipes[p].rotations = 2
        /\ pipes[p].chain[2].exists /\ pipes[p].chain[2].recs # <<>>
        /\ pipes[p].chain[1].exists /\ pipes[p].chain[1].recs # <<>>
        /\ Len(pipes[p].chain[0].recs) = 1

\* The threshold a call meets: the larger of the logger's level when the
\* call is made and the level the sinks were built with
Effective(c) ==
    IF c.ls /\ c.lv > pipes[c.pipe].cfg.minLevel
    THEN c.lv
    ELSE pipes[c.pipe].cfg.minLevel

C34_StoredConfigMatchesPipeline ==
    \A l \in Loggers :
        (alive[l] = "live" /\ m_logger[l] # NULL) =>
            LET pipe == pipes[m_logger[l]]
            IN  /\ [m_config[l] EXCEPT !.minLevel = pipe.cfg.minLevel] = pipe.cfg
                /\ convertLevel(m_config[l].minLevel) = pipe.level

(***************************************************************************)
(* C35.  With one thread calling, every exit of setupLogger (no file path, *)
(* file sink built, write probe failed with its early return, directory or *)
(* sink construction throwing) leaves std::cerr on the stream buffer it    *)
(* had before the call.                                                    *)
(***************************************************************************)
C35_StderrRestoredOnEveryExit ==
    [][std_cerr'.buf = std_cerr.buf]_vars

\* The guard was built and destroyed (rdbuf has cleared the failbit the
\* static initializer set) in a call that left by the early return and in
\* one that left through the outer handler.
C35_Witness ==
    /\ ~std_cerr.fail
    /\ \E l \in Loggers : \E i \in 1..Len(lastSetup[l]), j \in 1..Len(lastSetup[l]) :
           /\ lastSetup[l][i].ret
           /\ lastSetup[l][j].env = "sinkThrows"

\* No thread is inside the scope of a StderrRedirectGuard
NoGuard == \A t \in Threads : guard_old[t] = "none"

(***************************************************************************)
(* C36.  When threads construct or reconfigure Loggers with a file path    *)
(* concurrently, then once all of them have finished std::cerr is on its   *)
(* original stream buffer, never on the temporary buffer of a finished     *)
(* call.                                                                   *)
(***************************************************************************)
C36_StderrRestoredAfterConcurrentSetups ==
    NoGuard => std_cerr.buf = "stderr"

\* The number of sinks of a kind in a sink vector
CountKind(sinks, k) == Cardinality({i \in 1..Len(sinks) : sinks[i].kind = k})

(***************************************************************************)
(* C37.  Every pipeline that is built has at most one console sink and at  *)
(* most one rotating file sink, and a console sink the configuration did   *)
(* not ask for is there only as the fallback of an otherwise empty set.    *)
(***************************************************************************)
C37_AtMostOneSinkPerKind ==
    \A p \in 1..Len(pipes) :
        /\ CountKind(pipes[p].sinks, "console") <= 1
        /\ CountKind(pipes[p].sinks, "file") <= 1
        /\ (~pipes[p].cfg.console /\ HasKind(pipes[p].sinks, "console"))
               => Len(pipes[p].sinks) = 1

\* One pipeline has the fallback console sink alone (console off, the file
\* sink could not be built) and another has a console and a file sink.
C37_Witness ==
    \E p \in 1..Len(pipes), q \in 1..Len(pipes) :
        /\ ~pipes[p].cfg.console
        /\ pipes[p].cfg.path # "none"
        /\ SinkKinds(pipes[p]) = {"console"}
        /\ SinkKinds(pipes[q]) = {"console", "file"}
        /\ Len(pipes[q].sinks) = 2

\* The step writes a record to the active file of pipeline p
FileWrites(p) ==
    /\ pipes'[p].chain[0].recs # pipes[p].chain[0].recs
    /\ pipes'[p].chain[0].recs # <<>>

(***************************************************************************)
(* C38.  In sync and in async mode, with no flush() call, the step that    *)
(* writes a record of severity ERROR or FATAL to the sinks also flushes    *)
(* them (nothing written stays buffered), and the step that writes a       *)
(* record of lower severity flushes nothing: that record stays buffered.   *)
(***************************************************************************)
C38_FlushOnErrorAndAbove ==
    [][\A p \in 1..Len(pipes) :
          FileWrites(p) =>
              LET rec == pipes'[p].chain[0].recs[Len(pipes'[p].chain[0].recs)]
              IN  IF Severity(rec.m) >= ERROR
                  THEN pipes'[p].unflushed = 0
                  ELSE pipes'[p].unflushed >= 1]_vars

\* The worker of an async pipeline has written a warning and then a fatal
\* record: both are in the file although flush() was never called.
C38_Witness ==
    \E p \in 1..Len(pipes) :
        /\ pipes[p].async
        /\ Len(pipes[p].fileIn) = 2
        /\ pipes[p].fileIn[1].m = "warning"
        /\ pipes[p].fileIn[2].m = "fatal"
        /\ pipes[p].unflushed = 0
        /\ \A t \in Threads : pc[t] = "idle" /\ flushPipe[t] = NULL

(***************************************************************************)
(* C39.  A log call made by another thread while setConfig runs goes       *)
(* through one whole pipeline, the previous or the new one: the process    *)
(* does not crash and, once the call has returned, its record is in every  *)
(* sink of the pipeline it was made on or on its way there through the     *)
(* queue.                                                                  *)
(***************************************************************************)
C39_CallDuringSetConfigDelivered ==
    /\ \A l \in Loggers : alive[l] # "crashed"
    /\ \A c \in calls :
           (\A t \in Threads : pend[t].rec # c.rec) =>
               \A k \in SinkKinds(pipes[c.pipe]) :
                   \/ Delivered(c.pipe, k, c.rec)
                   \/ InFlight(c.pipe, c.rec)

====
